---- MODULE Spec2Model ----
(***************************************************************************)
(* Verification model of the checkbox style menu plugin (src/main.ts).     *)
(*                                                                         *)
(* Current implementation: InteractionHandler (long-press detection),      *)
(* OverlayManager, CheckboxStyleWidget and the checkboxWidgetState field.  *)
(* Legacy implementation: the second CheckboxStyleMenuPlugin class.        *)
(*                                                                         *)
(* Timers are pending callbacks that fire nondeterministically; elapsed    *)
(* times and touch coordinates are event inputs.  Text is a sequence of    *)
(* one-character strings; a document is a sequence of lines, each with a   *)
(* stable identity so that a DOM checkbox can be tied to its line.         *)
(***************************************************************************)
EXTENDS Integers, Sequences, FiniteSets, TLC

(***************************************************************************)
(* Bounds of the model                                                     *)
(***************************************************************************)
\* number of widget objects that are alive (referenced by the state field, by
\* a pending callback or by an active touch) at the same time
MaxSessions == 2
\* number of simultaneously active touch points
MaxTouches == 2
\* render children of the plugin that are counted
MaxRenderChildren == 2

(***************************************************************************)
(* Program constants                                                       *)
(***************************************************************************)
SCROLL_THRESHOLD == 10
TAP_TIME_THRESHOLD == 300

CHECKBOX_STYLES ==
    << " ", "/", "x", "-", ">", "<", "?", "!", "*", "\"", "l", "b", "i",
       "S", "I", "p", "c", "f", "k", "w", "u", "d" >>

(***************************************************************************)
(* Text helpers: the regular expressions of the plugin, computed on        *)
(* sequences of characters the way the regex engine matches them.          *)
(***************************************************************************)
IsWs(ch) == ch \in {" ", "\t"}
IsDigit(ch) == ch \in {"0", "1", "2", "3", "4", "5", "6", "7", "8", "9"}

\* index of the first position >= i of t that is not whitespace (\s*)
RECURSIVE SkipWs(_, _)
SkipWs(t, i) == IF i <= Len(t) /\ IsWs(t[i]) THEN SkipWs(t, i + 1) ELSE i

\* index of the first position >= i of t that is not a digit (\d+, greedy)
RECURSIVE SkipDigits(_, _)
SkipDigits(t, i) == IF i <= Len(t) /\ IsDigit(t[i]) THEN SkipDigits(t, i + 1) ELSE i

\* (?:-|\d+\.) at position i: the position after the list marker, 0 if none
MarkerEnd(t, i) ==
    IF i > Len(t) THEN 0
    ELSE IF t[i] = "-" THEN i + 1
    ELSE IF IsDigit(t[i])
         THEN LET j == SkipDigits(t, i)
              IN IF j <= Len(t) /\ t[j] = "." THEN j + 1 ELSE 0
    ELSE 0

\* (?:-|\d+\.)\s*\[(.)\] at position i: the position of the closing "]",
\* 0 when the pattern does not match at i
SymbolMatchEnd(t, i) ==
    LET m == MarkerEnd(t, i)
    IN IF m = 0 THEN 0
       ELSE LET k == SkipWs(t, m)
            IN IF k + 2 <= Len(t) /\ t[k] = "[" /\ t[k + 2] = "]"
               THEN k + 2 ELSE 0

\* CHECKBOX_REGEX.test(line): ^\s*(?:-|\d+\.)\s*\[(.)\]\s*(.*)?$
isCheckboxLine(t) == SymbolMatchEnd(t, SkipWs(t, 1)) # 0

\* line.text.match(CHECKBOX_SYMBOL_REGEX): the leftmost position where the
\* unanchored pattern matches (1-based), 0 when there is no match
RECURSIVE SymbolMatchFrom(_, _)
SymbolMatchFrom(t, i) ==
    IF i > Len(t) THEN 0
    ELSE IF SymbolMatchEnd(t, i) # 0 THEN i
    ELSE SymbolMatchFrom(t, i + 1)

CHECKBOX_SYMBOL_MATCH(t) == SymbolMatchFrom(t, 1)

\* match[0].indexOf('['): 0-based offset of the first "[" at or after i
RECURSIVE IndexOfBracket(_, _, _)
IndexOfBracket(t, i, off) ==
    IF i > Len(t) THEN -1
    ELSE IF t[i] = "[" THEN off
    ELSE IndexOfBracket(t, i + 1, off + 1)

(***************************************************************************)
(* Document helpers (CodeMirror Text): offsets are 0-based, lines are      *)
(* joined by one line break.                                               *)
(***************************************************************************)
RECURSIVE LineFrom(_, _)
LineFrom(d, n) == IF n <= 1 THEN 0 ELSE LineFrom(d, n - 1) + Len(d[n - 1].text) + 1

DocLength(d) == IF Len(d) = 0 THEN 0 ELSE LineFrom(d, Len(d)) + Len(d[Len(d)].text)

\* doc.lineAt(pos): number of the line that holds offset pos, 0 when the
\* offset is outside the document (lineAt throws a RangeError)
lineAt(d, pos) ==
    IF pos < 0 \/ pos > DocLength(d) \/ Len(d) = 0 THEN 0
    ELSE CHOOSE n \in 1..Len(d) :
            LineFrom(d, n) <= pos /\ pos <= LineFrom(d, n) + Len(d[n].text)

(***************************************************************************)
(* State: the plugin is loaded in one of its two implementations           *)
(***************************************************************************)
VARIABLES
    impl,                 \* which plugin class is loaded: "current" or "legacy"
    lg,                   \* fields of the legacy plugin, its listeners and DOM
    isMobile,             \* Platform.isMobile
    movedBeyond,          \* the touch of the pending long-press has moved farther
                          \* than the scroll threshold from its origin
    doc,                  \* view.state.doc: sequence of [id, text]
    changes,              \* number of document changes dispatched by the last event
    checkboxStyles,       \* plugin.checkboxStyles: symbols whose enabled flag is true
    cachedEnabledStyles,  \* plugin.cachedEnabledStyles
    timer,                \* InteractionHandler.state.timer: anchor of the pending long-press timer, 0 if none
    lastTarget,           \* InteractionHandler.state.lastTarget, 0 if null
    touchStart,           \* InteractionHandler.state.touchStart, <<>> if undefined
    mouseHeld,            \* the mouse button is down
    hover,                \* menu the mouse pointer is over, 0 if none
    touches,              \* targets of the active touch points
    ss,                   \* widgets, state field, overlay manager, DOM, and whether
                          \* an exception escaped from a teardown method
    viewDestroyed,        \* the editor view and its view plugin have been destroyed
    compat,               \* calls of the Tasks-compatibility module and their effects
    data,                 \* the persisted settings as loadData() returns them
    settings              \* the plugin's settings object

vars == << impl, lg, isMobile, movedBeyond, doc, changes, checkboxStyles, cachedEnabledStyles, timer,
           lastTarget, touchStart, mouseHeld, hover, touches, ss,
           viewDestroyed, compat, data, settings >>

\* the variables of the editor and of the widget and handler classes
editorVars == << impl, lg, isMobile, movedBeyond, doc, changes, timer, lastTarget,
                touchStart, mouseHeld, hover, touches, ss, viewDestroyed >>

\* the variables of the editor and of the plugin classes
pluginVars == << impl, lg, isMobile, movedBeyond, doc, changes, checkboxStyles,
                cachedEnabledStyles, timer, lastTarget, touchStart, mouseHeld, hover,
                touches, ss, viewDestroyed >>

\* the current implementation runs on the desktop or on a mobile device, in
\* an editor view that has not been destroyed
Desktop == impl = "current" /\ ~isMobile /\ ~viewDestroyed
Mobile == impl = "current" /\ isMobile /\ ~viewDestroyed

Widgets == 1..MaxSessions

\* DOM elements owned by the plugin
Menu(w) == << "menu", w >>
Overlay(n) == << "overlay", n >>

\* event targets
Cb(c) == << "cb", c, 0 >>
Ov(n) == << "overlay", n, 0 >>
Li(w, i) == << "li", w, i >>
Pad(w) == << "pad", w, 0 >>
Other == << "other", 0, 0 >>
Outside == << "outside", 0, 0 >>

\* coordinates of a touchstart, and of a later touchmove or touchend: at the
\* origin, at SCROLL_THRESHOLD on both axes, and beyond it on one axis
Origins == { << 0, 0 >> }
Points == { << 0, 0 >>, << SCROLL_THRESHOLD, SCROLL_THRESHOLD >>,
            << SCROLL_THRESHOLD + 1, 0 >>, << 0, SCROLL_THRESHOLD + 1 >> }
\* elapsed times of a touch on the menu, around TAP_TIME_THRESHOLD
Durations == {TAP_TIME_THRESHOLD - 1, TAP_TIME_THRESHOLD}

Abs(n) == IF n < 0 THEN 0 - n ELSE n

\* a CheckboxStyleWidget that has not been constructed yet
NoWidget ==
    [ phase |-> "unborn", target |-> 0, linePos |-> 0, menuElement |-> FALSE,
      popperInstance |-> FALSE, menuTimeout |-> FALSE, abortController |-> FALSE,
      cleanupScrollIndicators |-> FALSE, rendered |-> << >>, touchStart |-> << >>,
      restartPending |-> FALSE ]

\* new OverlayManager()
NoOverlay ==
    [ overlayElement |-> 0, anchor |-> 0, abortController |-> FALSE,
      popperInstance |-> FALSE, pointerNone |-> FALSE, restorePending |-> FALSE ]

Line(txt, n) == [ id |-> n, text |-> txt ]

InitDocs ==
    { << Line(<< "-", " ", "[", " ", "]", " ", "a" >>, 1),
         Line(<< " ", "1", "2", ".", " ", "[", "!", "]", " ", "-", "[", "x", "]" >>, 2) >> }

\* the document after an edit made while the plugin runs: the second line is
\* deleted and the list marker of the first is changed to "*", for which the
\* editor still renders a task checkbox
EditedDoc == << Line(<< "*", " ", "[", " ", "]", " ", "a" >>, 1) >>

\* enabled styles at start: a user selection of two styles, or none
InitEnabled == { {" ", "x"}, {} }

\* new legacy plugin after onload(): no timer, no menu, no overlay
NoLegacy ==
    [ timer |-> FALSE, pending |-> 0, isLongPress |-> FALSE,
      lastMouseDownEvent |-> FALSE, targetView |-> FALSE, menuTimeout |-> FALSE,
      menuElement |-> 0, overlayElement |-> 0, anchor |-> 0, pos |-> -1,
      listeners |-> 0,
      over |-> "none", dom |-> {} ]

(***************************************************************************)
(* Settings: JSON values of the persisted data, and loadSettings           *)
(***************************************************************************)
\* JSON values as JavaScript sees them; v is meaningful for boolean, number
\* (integers) and string (a sequence of characters)
Undefined == [ t |-> "undefined", v |-> 0 ]
Null == [ t |-> "null", v |-> 0 ]
Bool(b) == [ t |-> "boolean", v |-> b ]
Num(n) == [ t |-> "number", v |-> n ]
Str(chars) == [ t |-> "string", v |-> chars ]
NaN == [ t |-> "NaN", v |-> 0 ]

\* value of a character as a digit, 36 if it is none (hexadecimal at most)
DigitValue(ch) ==
    CASE ch = "0" -> 0 [] ch = "1" -> 1 [] ch = "2" -> 2 [] ch = "3" -> 3
      [] ch = "4" -> 4 [] ch = "5" -> 5 [] ch = "6" -> 6 [] ch = "7" -> 7
      [] ch = "8" -> 8 [] ch = "9" -> 9
      [] ch \in {"a", "A"} -> 10 [] ch \in {"b", "B"} -> 11
      [] ch \in {"c", "C"} -> 12 [] ch \in {"d", "D"} -> 13
      [] ch \in {"e", "E"} -> 14 [] ch \in {"f", "F"} -> 15
      [] OTHER -> 36

\* the longest prefix of digits of the radix from position i on: NaN if empty
RECURSIVE ParseDigits(_, _, _, _, _)
ParseDigits(t, i, radix, acc, seen) ==
    IF i <= Len(t) /\ DigitValue(t[i]) < radix
    THEN ParseDigits(t, i + 1, radix, acc * radix + DigitValue(t[i]), TRUE)
    ELSE IF seen THEN Num(acc) ELSE NaN

\* parseInt(string) without a radix: leading whitespace, a sign, an optional
\* 0x prefix, then the longest prefix of digits
parseIntString(t) ==
    LET i == SkipWs(t, 1)
        signed == i <= Len(t) /\ t[i] \in {"+", "-"}
        j == IF signed THEN i + 1 ELSE i
        hex == j + 1 <= Len(t) /\ t[j] = "0" /\ t[j + 1] \in {"x", "X"}
        r == IF hex THEN ParseDigits(t, j + 2, 16, 0, FALSE)
             ELSE ParseDigits(t, j, 10, 0, FALSE)
    IN IF r.t = "number" /\ signed /\ t[i] = "-" THEN Num(0 - r.v) ELSE r

\* parseInt(value): the argument is converted to a string first, and the
\* strings of undefined, null and booleans start with no digit
parseInt(value) == IF value.t = "string" THEN parseIntString(value.v) ELSE NaN

\* mutant of validateDuration: the range is not examined
validateDurationAnyNumber(value, min, max, defaultValue) ==
    LET num == IF value.t = "number" THEN value ELSE parseInt(value)
    IN IF num.t # "NaN" THEN num.v ELSE defaultValue

\* mutant of validateDuration: a number outside the range is clamped
validateDurationClamps(value, min, max, defaultValue) ==
    LET num == IF value.t = "number" THEN value ELSE parseInt(value)
    IN IF num.t = "NaN" THEN defaultValue
       ELSE IF num.v < min THEN min
       ELSE IF num.v > max THEN max
       ELSE num.v

\* validateDuration(value, min, max, defaultValue)
validateDuration(value, min, max, defaultValue) ==
    LET num == IF value.t = "number" THEN value ELSE parseInt(value)
    IN IF num.t # "NaN" /\ num.v >= min /\ num.v <= max THEN num.v ELSE defaultValue

\* the symbols of the catalog
Catalog == { CHECKBOX_STYLES[i] : i \in 1..Len(CHECKBOX_STYLES) }

\* DEFAULT_SETTINGS; a styles object is the set of the symbols whose flag is
\* true, every other key of it being false
DEFAULT_SETTINGS ==
    [ styles |-> {" ", "/", "x", "-"},
      longPressDuration |-> 350, touchLongPressDuration |-> 500,
      enableHapticFeedback |-> Bool(TRUE) ]

\* the plugin before loadSettings: this.settings is not assigned yet.
\* defaultStyles is the present content of the object DEFAULT_SETTINGS.styles,
\* stylesAliased tells that settings.styles is that very object, and saving
\* holds what the saveData calls that have not completed are writing.
NoSettings ==
    [ loaded |-> FALSE, threw |-> FALSE, longPressDuration |-> 0,
      touchLongPressDuration |-> 0, enableHapticFeedback |-> Undefined,
      styles |-> {}, stylesAliased |-> FALSE,
      defaultStyles |-> DEFAULT_SETTINGS.styles, saving |-> << >> ]

\* a persisted styles value: absent, or an object with the
\* flags of the symbols in on true, of those in off false, and no boolean for
\* the others
AbsentStyles == [ kind |-> "undefined", on |-> {}, off |-> {} ]
StylesObject(on, off) == [ kind |-> "object", on |-> on, off |-> off ]

\* what loadData() resolves to: null (nothing was saved), a value that is not
\* an object, or an object with the given fields
NullData ==
    [ kind |-> "null", longPressDuration |-> Undefined,
      touchLongPressDuration |-> Undefined, enableHapticFeedback |-> Undefined,
      styles |-> AbsentStyles ]
NonObjectData ==
    [ kind |-> "string", longPressDuration |-> Undefined,
      touchLongPressDuration |-> Undefined, enableHapticFeedback |-> Undefined,
      styles |-> AbsentStyles ]
ObjectData(lp, tlp, haptic) ==
    [ kind |-> "object", longPressDuration |-> lp,
      touchLongPressDuration |-> tlp, enableHapticFeedback |-> haptic,
      styles |-> AbsentStyles ]
WithStyles(d, st) == [ d EXCEPT !.styles = st ]

\* data?.field: undefined when data is null or has no such property
Field(d, value) == IF d.kind = "object" THEN value ELSE Undefined

\* validateStylesObject(styles), DEFAULT_SETTINGS.styles holding defaults:
\* the defaults object itself when styles is no object, otherwise a new object
\* with the boolean flags of styles and the defaults for the other symbols
validateStylesObject(st, defaults) ==
    IF st.kind # "object"
    THEN [ styles |-> defaults, aliased |-> TRUE ]
    ELSE [ styles |-> { sym \in Catalog :
                          IF sym \in st.on THEN TRUE
                          ELSE IF sym \in st.off THEN FALSE
                          ELSE sym \in defaults },
           aliased |-> FALSE ]

\* loadSettings() once loadData() has resolved to d
loadSettings(d) ==
    LET haptic == Field(d, d.enableHapticFeedback)
        validated == validateStylesObject(
                         IF d.kind = "object" THEN d.styles ELSE AbsentStyles,
                         DEFAULT_SETTINGS.styles)
    IN [ loaded |-> TRUE,
         styles |-> validated.styles,
         stylesAliased |-> validated.aliased,
         defaultStyles |-> DEFAULT_SETTINGS.styles,
         saving |-> << >>,
         threw |-> FALSE,
         longPressDuration |->
             validateDuration(Field(d, d.longPressDuration), 100, 1000, 350),
         touchLongPressDuration |->
             validateDuration(Field(d, d.touchLongPressDuration), 200, 1500, 500),
         enableHapticFeedback |->
             IF haptic.t \in {"undefined", "null"} THEN Bool(TRUE) ELSE haptic ]

(***************************************************************************)
(* Tasks-compatibility module: the state its functions read and change     *)
(***************************************************************************)
\* no decision taken, no call of applyStyleViaClick made; the overlay of the
\* open session is in place
NoCompat ==
    [ currentSymbol |-> " ", targetSymbol |-> " ",
      tasksCompatibilityEnabled |-> FALSE,
      decided |-> FALSE, useClick |-> FALSE,
      overlayElement |-> TRUE, calls |-> 0, timers |-> 0, clicks |-> 0,
      returned |-> FALSE, shouldHideMenu |-> FALSE,
      dispatchFailed |-> FALSE, escaped |-> FALSE,
      app |-> "absent",
      enableTasksCompatibility |-> FALSE, hasShownTasksNotice |-> FALSE,
      wasChanged |-> FALSE, notices |-> 0, saves |-> 0, runs |-> 0 ]

\* the editor and the plugin classes after construction
PluginInit ==
    /\ impl \in {"current", "legacy"}
    /\ lg = NoLegacy
    /\ movedBeyond = FALSE
    /\ isMobile \in (IF impl = "current" THEN BOOLEAN ELSE {FALSE})
    /\ doc \in InitDocs
    /\ changes = 0
    /\ checkboxStyles \in InitEnabled
    /\ cachedEnabledStyles = [ valid |-> FALSE, list |-> << >> ]
    /\ timer = 0
    /\ lastTarget = 0
    /\ touchStart = << >>
    /\ mouseHeld = FALSE
    /\ hover = 0
    /\ touches = {}
    /\ ss = [ widgets |-> [ w \in Widgets |-> NoWidget ],
              widget |-> 0,
              overlayManager |-> NoOverlay,
              dom |-> {},
              threw |-> FALSE,
              children |-> 0 ]
    /\ viewDestroyed = FALSE

\* the plugin in an editor: the saved settings hold the user's selection of
\* styles, and the compatibility module is not called
Init ==
    /\ PluginInit
    /\ compat = NoCompat
    /\ data = WithStyles(ObjectData(Undefined, Undefined, Undefined),
                         StylesObject(checkboxStyles, Catalog \ checkboxStyles))
    /\ settings = loadSettings(data)

(***************************************************************************)
(* Plugin helpers                                                          *)
(***************************************************************************)
\* checkboxStyles.filter(style => style.enabled), in catalog order
FilterEnabled(enabled) == SelectSeq(CHECKBOX_STYLES, LAMBDA s : s \in enabled)

\* getEnabledStyles(): the cached list, computed when the cache is empty
getEnabledStyles(cache, enabled) ==
    IF cache.valid THEN cache.list ELSE FilterEnabled(enabled)

\* the cache after a call of getEnabledStyles()
CacheAfterGet(cache, enabled) ==
    [ valid |-> TRUE, list |-> getEnabledStyles(cache, enabled) ]

\* number of the line of d with identity c, 0 if there is none
LineOf(d, c) ==
    IF \E n \in 1..Len(d) : d[n].id = c
    THEN CHOOSE n \in 1..Len(d) : d[n].id = c
    ELSE 0

\* lines for which the editor renders a task checkbox element
CheckboxElements(d) == { d[n].id : n \in 1..Len(d) }

\* view.posAtDOM(target): the offset of the task marker of the target's line
posAtDOM(d, c) ==
    LET n == LineOf(d, c)
    IN IF n = 0 THEN -1
       ELSE LineFrom(d, n) + IndexOfBracket(d[n].text, 1, 0)

(***************************************************************************)
(* OverlayManager                                                          *)
(***************************************************************************)
\* mutant of OverlayManager.remove(): the element is removed without the
\* null check, so a call with no overlay throws
OverlayRemoveUnguarded(s) ==
    LET om == s.overlayManager
    IN IF om.overlayElement = 0 THEN [ s EXCEPT !.threw = TRUE ]
       ELSE [ s EXCEPT
                !.overlayManager =
                    [ om EXCEPT !.abortController = FALSE, !.popperInstance = FALSE,
                                !.overlayElement = 0, !.anchor = 0, !.pointerNone = FALSE ],
                !.dom = @ \ { Overlay(om.overlayElement) } ]

\* OverlayManager.remove()
OverlayRemove(s) ==
    LET om == s.overlayManager
    IN [ s EXCEPT
           !.overlayManager =
               [ om EXCEPT !.abortController = FALSE,
                           !.popperInstance = FALSE,
                           !.overlayElement = 0,
                           !.anchor = 0,
                           !.pointerNone = FALSE ],
           !.dom = IF om.overlayElement # 0 THEN @ \ { Overlay(om.overlayElement) } ELSE @ ]

\* OverlayManager.create(checkbox): n is the identity of the new element
OverlayCreate(s, c, n) ==
    LET r == OverlayRemove(s)
    IN [ r EXCEPT
           !.overlayManager =
               [ @ EXCEPT !.overlayElement = n,
                          !.anchor = c,
                          !.popperInstance = TRUE,
                          !.abortController = TRUE,
                          !.pointerNone = FALSE ],
           !.dom = @ \cup { Overlay(n) } ]

(***************************************************************************)
(* CheckboxStyleWidget                                                     *)
(***************************************************************************)
\* CheckboxStyleWidget.clearTimeout()
clearTimeout(s, w) == [ s EXCEPT !.widgets[w].menuTimeout = FALSE ]

\* CheckboxStyleWidget.startDismissTimeout(view, delay)
startDismissTimeout(s, w) == [ clearTimeout(s, w) EXCEPT !.widgets[w].menuTimeout = TRUE ]

\* mutant of cleanup(): the menu element is forgotten but stays in the DOM
cleanupKeepsMenu(s, w) ==
    [ clearTimeout(s, w) EXCEPT
        !.widgets[w].abortController = FALSE,
        !.widgets[w].cleanupScrollIndicators = FALSE,
        !.widgets[w].popperInstance = FALSE,
        !.widgets[w].menuElement = FALSE ]

\* mutant of cleanup(): the menu element is removed from the DOM but the
\* field keeps it
cleanupKeepsField(s, w) ==
    LET wr == s.widgets[w]
    IN [ clearTimeout(s, w) EXCEPT
           !.widgets[w].abortController = FALSE,
           !.widgets[w].cleanupScrollIndicators = FALSE,
           !.widgets[w].popperInstance = FALSE,
           !.dom = IF wr.menuElement THEN @ \ { Menu(w) } ELSE @ ]

\* CheckboxStyleWidget.cleanup() and destroy()
cleanup(s, w) ==
    LET wr == s.widgets[w]
    IN [ clearTimeout(s, w) EXCEPT
           !.widgets[w].abortController = FALSE,
           !.widgets[w].cleanupScrollIndicators = FALSE,
           !.widgets[w].popperInstance = FALSE,
           !.widgets[w].menuElement = FALSE,
           !.dom = IF wr.menuElement THEN @ \ { Menu(w) } ELSE @ ]

\* mutant of the hideWidgetEffect update: the overlay is left in place
HideEffectKeepsOverlay(s) ==
    LET d == IF s.widget # 0 THEN cleanup(s, s.widget) ELSE s
    IN [ d EXCEPT !.widget = 0 ]

\* checkboxWidgetState.update for hideWidgetEffect
HideEffect(s) ==
    LET d == IF s.widget # 0 THEN cleanup(s, s.widget) ELSE s
    IN OverlayRemove([ d EXCEPT !.widget = 0 ])

\* document.querySelectorAll('.tooltip, [class*="tooltip"]').forEach(el => el.remove())
RemoveTooltips(s) == [ s EXCEPT !.dom = { e \in @ : e[1] # "tooltip" } ]

\* CheckboxStyleWidget.hide(view)
hide(s, w) == HideEffect(RemoveTooltips(cleanup(s, w)))

\* mutant of show(): the dismiss timer is not started
ShowRestNoTimeout(s, w, mobile) ==
    LET wr == s.widgets[w]
    IN [ s EXCEPT
           !.widgets[w].popperInstance = wr.menuElement,
           !.widgets[w].cleanupScrollIndicators =
               mobile /\ wr.menuElement /\ Len(wr.rendered) > 0,
           !.widgets[w].abortController = wr.menuElement,
           !.widgets[w].phase = "shown" ]

\* the part of show() after createMenu(): setupPopper, setupScrollIndicators,
\* setupEventListeners and startDismissTimeout
ShowRest(s, w, mobile) ==
    LET wr == s.widgets[w]
        s1 == [ s EXCEPT
                  !.widgets[w].popperInstance = wr.menuElement,
                  !.widgets[w].cleanupScrollIndicators =
                      mobile /\ wr.menuElement /\ Len(wr.rendered) > 0,
                  !.widgets[w].abortController = wr.menuElement,
                  !.widgets[w].phase = "shown" ]
    IN startDismissTimeout(s1, w)

\* renderMenuContent: this.plugin.addChild(renderChild); the children of the
\* plugin are counted up to MaxRenderChildren
addChild(n) == IF n < MaxRenderChildren THEN n + 1 ELSE n

\* mutant of createMenu(): the placeholder menu waits for the renderer too
CreateMenuAlwaysWaits(s, w, enabledStyles, mobile) ==
    [ s EXCEPT !.widgets[w].menuElement = TRUE,
               !.widgets[w].rendered = enabledStyles,
               !.widgets[w].phase = "rendering" ]

\* createMenu() up to the first suspension: with no enabled style the menu is
\* appended at once and show() continues in a microtask; otherwise the widget
\* waits for MarkdownRenderer.render
CreateMenu(s, w, enabledStyles, mobile) ==
    LET s1 == [ s EXCEPT !.widgets[w].menuElement = TRUE,
                         !.widgets[w].rendered = enabledStyles ]
    IN IF Len(enabledStyles) = 0
       THEN ShowRest([ s1 EXCEPT !.dom = @ \cup { Menu(w) } ], w, mobile)
       ELSE [ s1 EXCEPT !.widgets[w].phase = "rendering",
                        !.children = addChild(@) ]

\* checkboxWidgetState.update for showWidgetEffect: the widget held by the
\* field is destroyed, a new one is constructed and show() is started
ShowEffect(s, pos, c, w, enabledStyles, mobile) ==
    LET d == IF s.widget # 0 THEN cleanup(s, s.widget) ELSE s
        n == [ d EXCEPT !.widget = w,
                        !.widgets[w] = [ NoWidget EXCEPT !.target = c, !.linePos = pos ] ]
    IN CreateMenu(n, w, enabledStyles, mobile)

\* replacement of the character at offset from of the document by sym
ReplaceChar(d, from, sym) ==
    LET n == lineAt(d, from)
        col == from - LineFrom(d, n) + 1
    IN IF n = 0 \/ col > Len(d[n].text) THEN d
       ELSE [ d EXCEPT ![n].text[col] = sym ]

\* mutant of applyCheckboxStyle: the replaced range starts at the bracket
applyCheckboxStyleAtBracket(d, pos, symbol) ==
    LET n == lineAt(d, pos)
        text == d[n].text
        m == CHECKBOX_SYMBOL_MATCH(text)
        startIndex == (m - 1) + IndexOfBracket(text, m, 0)
        from == LineFrom(d, n) + startIndex
    IN IF ~isCheckboxLine(text) \/ m = 0
       THEN [ doc |-> d, changed |-> FALSE ]
       ELSE [ doc |-> ReplaceChar(d, from, symbol), changed |-> TRUE ]

\* applyCheckboxStyle(view, symbol) for a widget whose linePos is pos:
\* the document after the call, and whether a change was dispatched
applyCheckboxStyle(d, pos, symbol) ==
    LET n == lineAt(d, pos)
        text == d[n].text
        m == CHECKBOX_SYMBOL_MATCH(text)
        startIndex == (m - 1) + IndexOfBracket(text, m, 0) + 1
        from == LineFrom(d, n) + startIndex
    IN IF ~isCheckboxLine(text) \/ m = 0
       THEN [ doc |-> d, changed |-> FALSE ]
       ELSE [ doc |-> ReplaceChar(d, from, symbol), changed |-> TRUE ]

\* handleStyleSelection(view, li) for the entry with data-style-index i:
\* throws when the index is beyond the current enabled list or when linePos
\* is outside the document; otherwise applies the style and hides the menu
handleStyleSelection(s, d, w, i, enabledStyles) ==
    LET pos == s.widgets[w].linePos
    IN IF i + 1 > Len(enabledStyles) \/ lineAt(d, pos) = 0
       THEN [ ss |-> s, doc |-> d, changed |-> FALSE, threw |-> TRUE ]
       ELSE LET a == applyCheckboxStyle(d, pos, enabledStyles[i + 1])
            IN [ ss |-> hide(s, w), doc |-> a.doc, changed |-> a.changed, threw |-> FALSE ]

(***************************************************************************)
(* Event dispatch helpers                                                  *)
(***************************************************************************)
\* the target is inside the menu element of widget w
InMenu(tgt, w) == tgt[1] \in {"li", "pad"} /\ tgt[2] = w

\* the target is connected to the document when the event is dispatched
Attached(s, d, tgt) ==
    CASE tgt[1] = "cb" -> tgt[2] \in CheckboxElements(d)
      [] tgt[1] = "overlay" -> Overlay(tgt[2]) \in s.dom
      [] tgt[1] \in {"li", "pad"} -> Menu(tgt[2]) \in s.dom
      [] OTHER -> TRUE

\* the overlay covers checkbox c and takes its pointer events
Covered(s, c) ==
    LET om == s.overlayManager
    IN om.overlayElement # 0 /\ Overlay(om.overlayElement) \in s.dom
       /\ om.anchor = c /\ ~om.pointerNone

\* elements a press can land on
PointerTargets(s, d) ==
    { Cb(c) : c \in { e \in CheckboxElements(d) : ~Covered(s, e) } }
    \cup { Ov(n) : n \in { e \in Widgets : Covered(s, s.overlayManager.anchor)
                                           /\ e = s.overlayManager.overlayElement } }
    \cup UNION { { Li(w, i) : i \in 0..(Len(s.widgets[w].rendered) - 1) } :
                 w \in { e \in Widgets : Menu(e) \in s.dom } }
    \cup { Pad(w) : w \in { e \in Widgets : Menu(e) \in s.dom } }
    \cup { Other, Outside }

\* the preventEvent listener of the overlay is still registered on the target
OverlayBlocks(s, tgt) ==
    /\ tgt[1] = "overlay"
    /\ s.overlayManager.overlayElement = tgt[2]
    /\ s.overlayManager.abortController

\* setupTimeoutHandling: the capturing document listeners (mousedown or
\* touchstart) of the widgets w, w+1, ... in turn
RECURSIVE DocPress(_, _, _)
DocPress(s, tgt, w) ==
    IF w > MaxSessions THEN s
    ELSE LET wr == s.widgets[w]
             outside == ~(wr.menuElement /\ InMenu(tgt, w)) /\ tgt # Cb(wr.target)
         IN DocPress(IF wr.abortController /\ outside THEN hide(s, w) ELSE s, tgt, w + 1)

\* setupEventListeners: the window listeners (orientationchange, resize)
RECURSIVE WindowChange(_, _)
WindowChange(s, w) ==
    IF w > MaxSessions THEN s
    ELSE WindowChange(IF s.widgets[w].abortController THEN hide(s, w) ELSE s, w + 1)

\* the pointer stays over a menu only while the menu is attached
HoverAfter(h, s) == IF h # 0 /\ Menu(h) \in s.dom THEN h ELSE 0

\* a widget object nothing refers to any more: not held by the state field,
\* no pending timer or render, no listener, no active touch on its menu
Free(s, w, tch) ==
    LET wr == s.widgets[w]
    IN /\ s.widget # w
       /\ ~wr.menuTimeout /\ ~wr.restartPending /\ wr.phase # "rendering"
       /\ ~wr.abortController /\ ~wr.menuElement
       /\ \A t \in tch : ~InMenu(t, w)

\* a destroyed widget: not held by the state field, menu element and
\* listeners released; only its pending callbacks can still run
Destroyed(s, w) ==
    s.widget # w /\ ~s.widgets[w].menuElement /\ ~s.widgets[w].abortController

\* garbage collection: unreferenced widget objects are forgotten, and of a
\* destroyed widget only what its pending callbacks read is kept
Collect(s, tch) ==
    [ s EXCEPT !.widgets =
        [ w \in Widgets |->
            IF Free(s, w, tch) THEN NoWidget
            ELSE IF Destroyed(s, w)
            THEN [ NoWidget EXCEPT !.phase = s.widgets[w].phase,
                                   !.menuTimeout = s.widgets[w].menuTimeout,
                                   !.restartPending = s.widgets[w].restartPending ]
            ELSE @[w] ] ]

\* identities available for a new widget object
FreshWidgets(s) == { w \in Widgets : s.widgets[w].phase = "unborn" }

\* mutant of the checks of handleLongPress: the line is not examined
LongPressOpensAnyLine(d, c) ==
    LET pos == posAtDOM(d, c)
    IN pos >= 0 /\ pos <= DocLength(d)

(***************************************************************************)
(* InteractionHandler                                                      *)
(***************************************************************************)
\* handleLongPress(target) goes on to open a session: the position is valid
\* and the line is a checkbox line
LongPressOpens(d, c) ==
    LET pos == posAtDOM(d, c)
    IN /\ pos >= 0 /\ pos <= DocLength(d)
       /\ isCheckboxLine(d[lineAt(d, pos)].text)

\* mutant of handleLongPress: no overlay is created over the checkbox
handleLongPressNoOverlay(s, d, c, w, enabledStyles, mobile) ==
    IF ~LongPressOpens(d, c) THEN s
    ELSE ShowEffect(HideEffect(s), posAtDOM(d, c), c, w, enabledStyles, mobile)

\* handleLongPress(target): w is the identity of the new widget and of the
\* new overlay element
handleLongPress(s, d, c, w, enabledStyles, mobile) ==
    IF ~LongPressOpens(d, c) THEN s
    ELSE ShowEffect(OverlayCreate(HideEffect(s), c, w),
                    posAtDOM(d, c), c, w, enabledStyles, mobile)

\* the long-press timer set by handleMouseDown / handleTouchStart fires
LongPressTimerFire ==
    /\ timer # 0
    /\ LET c == timer
           opens == lastTarget = c /\ LongPressOpens(doc, c)
           enabledStyles == getEnabledStyles(cachedEnabledStyles, checkboxStyles)
       IN IF opens
          THEN /\ FreshWidgets(ss) # {}
               /\ LET w == CHOOSE e \in FreshWidgets(ss) :
                               \A f \in FreshWidgets(ss) : e <= f
                  IN ss' = Collect(handleLongPress(ss, doc, c, w, enabledStyles, isMobile),
                                   touches)
               /\ cachedEnabledStyles' = CacheAfterGet(cachedEnabledStyles, checkboxStyles)
          ELSE UNCHANGED << ss, cachedEnabledStyles >>
    /\ timer' = 0
    /\ movedBeyond' = FALSE
    /\ hover' = HoverAfter(hover, ss')
    /\ changes' = 0
    /\ UNCHANGED << viewDestroyed, compat, data, settings, impl, lg, isMobile, doc, checkboxStyles, lastTarget, touchStart,
                    mouseHeld, touches >>

\* MarkdownRenderer.render resolves: renderMenuContent and createMenu finish
\* and show() continues; a widget destroyed meanwhile has menuElement null
\* and the continuation throws
RenderDone(w) ==
    /\ ss.widgets[w].phase = "rendering"
    /\ ss' = Collect(IF ss.widgets[w].menuElement
                     THEN ShowRest([ ss EXCEPT !.dom = @ \cup { Menu(w) } ], w, isMobile)
                     ELSE [ ss EXCEPT !.widgets[w].phase = "failed" ],
                     touches)
    /\ changes' = 0
    /\ UNCHANGED << viewDestroyed, compat, data, settings, impl, lg, isMobile, movedBeyond, doc, checkboxStyles, cachedEnabledStyles, timer,
                    lastTarget, touchStart, mouseHeld, hover, touches >>

\* the dismiss timer of widget w fires: hide(view)
DismissTimerFire(w) ==
    /\ ss.widgets[w].menuTimeout
    /\ ss' = Collect(hide(ss, w), touches)
    /\ hover' = HoverAfter(hover, ss')
    /\ changes' = 0
    /\ UNCHANGED << viewDestroyed, compat, data, settings, impl, lg, isMobile, movedBeyond, doc, checkboxStyles, cachedEnabledStyles, timer,
                    lastTarget, touchStart, mouseHeld, touches >>

\* the 100 ms timer set by the mobile touchend listener fires
RestartTimerFire(w) ==
    /\ ss.widgets[w].restartPending
    /\ ss' = startDismissTimeout([ ss EXCEPT !.widgets[w].restartPending = FALSE ], w)
    /\ changes' = 0
    /\ UNCHANGED << viewDestroyed, compat, data, settings, impl, lg, isMobile, movedBeyond, doc, checkboxStyles, cachedEnabledStyles, timer,
                    lastTarget, touchStart, mouseHeld, hover, touches >>

\* desktop: a wheel event on the overlay passes the throttle
WheelOnOverlay ==
    /\ Desktop
    /\ Covered(ss, ss.overlayManager.anchor)
    /\ ss.overlayManager.abortController
    /\ ss' = [ ss EXCEPT !.overlayManager.pointerNone = TRUE,
                         !.overlayManager.restorePending = TRUE ]
    /\ changes' = 0
    /\ UNCHANGED << viewDestroyed, compat, data, settings, impl, lg, isMobile, movedBeyond, doc, checkboxStyles, cachedEnabledStyles, timer,
                    lastTarget, touchStart, mouseHeld, hover, touches >>

\* the 10 ms timer of the wheel handler restores the overlay's pointer events
OverlayRestoreFire ==
    /\ ss.overlayManager.restorePending
    /\ ss' = [ ss EXCEPT !.overlayManager.restorePending = FALSE,
                         !.overlayManager.pointerNone =
                             IF ss.overlayManager.overlayElement # 0 THEN FALSE ELSE @ ]
    /\ changes' = 0
    /\ UNCHANGED << viewDestroyed, compat, data, settings, impl, lg, isMobile, movedBeyond, doc, checkboxStyles, cachedEnabledStyles, timer,
                    lastTarget, touchStart, mouseHeld, hover, touches >>

(***************************************************************************)
(* Desktop input                                                           *)
(***************************************************************************)
\* targets of a mouse press or release: inside the menu the pointer is over
MouseTargets ==
    { t \in PointerTargets(ss, doc) :
        IF hover # 0 THEN InMenu(t, hover) ELSE t[1] \notin {"li", "pad"} }

\* InteractionHandler.handleMouseDown on view.dom, after the capturing
\* document listener of the open widget and unless the overlay stops the event
MouseDown(tgt) ==
    /\ Desktop
    /\ ~mouseHeld
    /\ tgt \in MouseTargets
    /\ LET s1 == DocPress(ss, tgt, 1)
           reaches == tgt # Outside /\ ~OverlayBlocks(s1, tgt)
       IN /\ ss' = Collect(s1, touches)
          /\ IF reaches /\ tgt[1] = "cb"
             THEN lastTarget' = tgt[2] /\ timer' = tgt[2]
             ELSE UNCHANGED << lastTarget, timer >>
    /\ mouseHeld' = TRUE
    /\ hover' = HoverAfter(hover, ss')
    /\ changes' = 0
    /\ UNCHANGED << viewDestroyed, compat, data, settings, impl, lg, isMobile, movedBeyond, doc, checkboxStyles, cachedEnabledStyles,
                    touchStart, touches >>

\* mouseup: the overlay's preventEvent, the menu's mouseup listener
\* (handleStyleSelection on an entry) or InteractionHandler.handleMouseUp
MouseUp(tgt) ==
    /\ Desktop
    /\ mouseHeld
    /\ tgt \in MouseTargets
    /\ mouseHeld' = FALSE
    /\ IF tgt[1] = "li" /\ ss.widgets[tgt[2]].abortController
       THEN LET r == handleStyleSelection(ss, doc, tgt[2], tgt[3],
                         getEnabledStyles(cachedEnabledStyles, checkboxStyles))
            IN /\ ss' = Collect(r.ss, touches)
               /\ doc' = r.doc
               /\ changes' = IF r.changed THEN 1 ELSE 0
               /\ cachedEnabledStyles' = CacheAfterGet(cachedEnabledStyles, checkboxStyles)
               /\ UNCHANGED << timer, lastTarget >>
       ELSE /\ IF tgt = Outside \/ OverlayBlocks(ss, tgt)
               THEN UNCHANGED << timer, lastTarget >>
               ELSE timer' = 0 /\ lastTarget' = 0
            /\ UNCHANGED << ss, doc, cachedEnabledStyles >>
            /\ changes' = 0
    /\ hover' = HoverAfter(hover, ss')
    /\ UNCHANGED << viewDestroyed, compat, data, settings, impl, lg, isMobile, movedBeyond, checkboxStyles, touchStart, touches >>

\* mouseenter on the menu: clearTimeout()
MouseEnter(w) ==
    /\ Desktop
    /\ hover = 0
    /\ Menu(w) \in ss.dom
    /\ hover' = w
    /\ ss' = IF ss.widgets[w].abortController THEN clearTimeout(ss, w) ELSE ss
    /\ changes' = 0
    /\ UNCHANGED << viewDestroyed, compat, data, settings, impl, lg, isMobile, movedBeyond, doc, checkboxStyles, cachedEnabledStyles, timer,
                    lastTarget, touchStart, mouseHeld, touches >>

\* mouseleave on the menu: startDismissTimeout(view, 2000)
MouseLeave(w) ==
    /\ Desktop
    /\ hover = w
    /\ Menu(w) \in ss.dom
    /\ hover' = 0
    /\ ss' = IF ss.widgets[w].abortController THEN startDismissTimeout(ss, w) ELSE ss
    /\ changes' = 0
    /\ UNCHANGED << viewDestroyed, compat, data, settings, impl, lg, isMobile, movedBeyond, doc, checkboxStyles, cachedEnabledStyles, timer,
                    lastTarget, touchStart, mouseHeld, touches >>

(***************************************************************************)
(* Mobile input                                                            *)
(***************************************************************************)
\* touchstart at point p: capturing document listener of the open widget,
\* then the overlay's preventEvent, the menu's touchstart listeners, and
\* InteractionHandler.handleTouchStart on view.dom
TouchStart(tgt, p) ==
    /\ Mobile
    /\ Cardinality(touches) < MaxTouches
    /\ tgt \in PointerTargets(ss, doc) \ (touches \cup { Outside })
    /\ touches' = touches \cup { tgt }
    /\ LET s1 == DocPress(ss, tgt, 1)
           inMenu == tgt[1] \in {"li", "pad"} /\ s1.widgets[tgt[2]].abortController
           s2 == IF inMenu
                 THEN clearTimeout([ s1 EXCEPT !.widgets[tgt[2]].touchStart = p ], tgt[2])
                 ELSE s1
           reaches == tgt # Outside /\ ~OverlayBlocks(s1, tgt)
       IN /\ ss' = Collect(s2, touches')
          /\ IF reaches /\ tgt[1] = "cb" /\ Cardinality(touches') = 1
             THEN /\ lastTarget' = tgt[2] /\ touchStart' = p /\ timer' = tgt[2]
                  /\ movedBeyond' = FALSE
             ELSE UNCHANGED << lastTarget, touchStart, timer, movedBeyond >>
    /\ changes' = 0
    /\ UNCHANGED << viewDestroyed, compat, data, settings, impl, lg, isMobile, doc, checkboxStyles, cachedEnabledStyles,
                    mouseHeld, hover >>

\* handleTouchMove: the first touch point is farther than the threshold from
\* the recorded origin on one axis
MovedTooFar(ts, p) ==
    \/ Abs(p[1] - ts[1]) > SCROLL_THRESHOLD
    \/ Abs(p[2] - ts[2]) > SCROLL_THRESHOLD

\* touchmove of the touch point that started on tgt; p is the position of
\* event.touches[0].  The overlay's own touchstart listener never runs
\* (preventEvent stops immediate propagation), so its startY stays 0.
TouchMove(tgt, p) ==
    /\ Mobile
    /\ tgt \in touches
    /\ LET att == Attached(ss, doc, tgt)
           onOverlay == att /\ OverlayBlocks(ss, tgt)
       IN /\ ss' = IF onOverlay /\ Abs(p[2] - 0) > 10 THEN OverlayRemove(ss) ELSE ss
          /\ IF /\ att /\ tgt # Outside
                /\ touchStart # << >> /\ Cardinality(touches) = 1
                /\ MovedTooFar(touchStart, p)
             THEN timer' = 0 /\ lastTarget' = 0 /\ touchStart' = << >>
             ELSE UNCHANGED << timer, lastTarget, touchStart >>
          /\ movedBeyond' =
                /\ timer' # 0
                /\ \/ movedBeyond
                   \/ /\ Cb(timer) \in touches /\ touchStart # << >>
                      /\ MovedTooFar(touchStart, p)
    /\ changes' = 0
    /\ UNCHANGED << viewDestroyed, compat, data, settings, impl, lg, isMobile, doc, checkboxStyles, cachedEnabledStyles,
                    mouseHeld, hover, touches >>

\* mutant of the tap test: the thresholds themselves count as a tap
IsTapInclusive(ts, p, dur) ==
    /\ Abs(p[1] - ts[1]) <= SCROLL_THRESHOLD
    /\ Abs(p[2] - ts[2]) <= SCROLL_THRESHOLD
    /\ dur <= TAP_TIME_THRESHOLD

\* setupTouchHandling: the touch that ends on a menu entry is a tap
IsTap(ts, p, dur) ==
    /\ Abs(p[1] - ts[1]) < SCROLL_THRESHOLD
    /\ Abs(p[2] - ts[2]) < SCROLL_THRESHOLD
    /\ dur < TAP_TIME_THRESHOLD

\* touchend at p of the touch point that started on tgt, dur ms after the
\* menu's touchstart: the overlay's preventEvent, or the menu's two touchend
\* listeners (setupTouchHandling, setupTimeoutHandling), then
\* InteractionHandler.handleTouchEnd on view.dom
TouchEnd(tgt, p, dur) ==
    /\ Mobile
    /\ tgt \in touches
    /\ touches' = touches \ { tgt }
    /\ LET att == Attached(ss, doc, tgt)
           w == tgt[2]
           inMenu == att /\ tgt[1] \in {"li", "pad"} /\ ss.widgets[w].abortController
           li == tgt[1] = "li"
           ts == IF inMenu THEN ss.widgets[w].touchStart ELSE << >>
           tap == inMenu /\ li /\ ts # << >> /\ IsTap(ts, p, dur)
           r == handleStyleSelection(ss, doc, w, tgt[3],
                    getEnabledStyles(cachedEnabledStyles, checkboxStyles))
           reaches == att /\ tgt # Outside /\ ~OverlayBlocks(ss, tgt)
       IN IF tap
          THEN /\ ss' = Collect(r.ss, touches')
               /\ doc' = r.doc
               /\ changes' = IF r.changed THEN 1 ELSE 0
               /\ cachedEnabledStyles' = CacheAfterGet(cachedEnabledStyles, checkboxStyles)
               /\ UNCHANGED << timer, lastTarget, touchStart >>
          ELSE /\ ss' = Collect(IF ~inMenu THEN ss
                                ELSE IF li
                                THEN [ ss EXCEPT !.widgets[w].touchStart = << >> ]
                                ELSE [ ss EXCEPT !.widgets[w].restartPending = TRUE ],
                                touches')
               /\ IF reaches
                  THEN timer' = 0 /\ lastTarget' = 0 /\ touchStart' = << >>
                  ELSE UNCHANGED << timer, lastTarget, touchStart >>
               /\ UNCHANGED << doc, cachedEnabledStyles >>
               /\ changes' = 0
    /\ movedBeyond' = (movedBeyond /\ timer' # 0)
    /\ UNCHANGED << viewDestroyed, compat, data, settings, impl, lg, isMobile, checkboxStyles, mouseHeld, hover >>

\* touchcancel of the touch point that started on tgt: the menu clears its
\* touchStart; the InteractionHandler has no touchcancel listener
TouchCancel(tgt) ==
    /\ Mobile
    /\ tgt \in touches
    /\ touches' = touches \ { tgt }
    /\ LET inMenu == Attached(ss, doc, tgt) /\ tgt[1] \in {"li", "pad"}
                     /\ ss.widgets[tgt[2]].abortController
       IN ss' = Collect(IF inMenu THEN [ ss EXCEPT !.widgets[tgt[2]].touchStart = << >> ]
                        ELSE ss, touches')
    /\ changes' = 0
    /\ UNCHANGED << viewDestroyed, compat, data, settings, impl, lg, isMobile, movedBeyond, doc, checkboxStyles, cachedEnabledStyles, timer,
                    lastTarget, touchStart, mouseHeld, hover >>

\* orientationchange or resize of the window: hide(view)
OrientationChange ==
    /\ Mobile
    /\ \E w \in Widgets : ss.widgets[w].abortController
    /\ ss' = Collect(WindowChange(ss, 1), touches)
    /\ changes' = 0
    /\ UNCHANGED << viewDestroyed, compat, data, settings, impl, lg, isMobile, movedBeyond, doc, checkboxStyles, cachedEnabledStyles, timer,
                    lastTarget, touchStart, mouseHeld, hover, touches >>

(***************************************************************************)
(* Editor: document edits and teardown of the view                         *)
(***************************************************************************)
\* a transaction that changes the document and carries no effect: the state
\* field keeps its value, an open widget keeps its linePos
EditDocument ==
    /\ impl = "current" /\ ~viewDestroyed
    /\ doc # EditedDoc
    /\ doc' = EditedDoc
    /\ changes' = 0
    /\ UNCHANGED << viewDestroyed, compat, data, settings, impl, lg, isMobile, movedBeyond,
                    checkboxStyles, cachedEnabledStyles, timer, lastTarget, touchStart,
                    mouseHeld, hover, touches, ss >>

\* InteractionHandler.destroy(): clearTimer(); the handler's listeners are
\* aborted.  The argument and the result are state.timer.
destroy(t) == 0

\* the editor view is destroyed: checkboxViewPlugin.destroy() calls
\* interactionHandler.destroy().  The handler's listeners are gone and the
\* editor's elements take no input any more, so the pointer and the handler's
\* fields are not tracked further; the state field, its widget and its
\* overlay manager are not touched.
ViewDestroy ==
    /\ impl = "current" /\ ~viewDestroyed
    /\ viewDestroyed' = TRUE
    /\ timer' = destroy(timer)
    /\ lastTarget' = 0 /\ touchStart' = << >> /\ movedBeyond' = FALSE
    /\ mouseHeld' = FALSE /\ hover' = 0 /\ touches' = {}
    /\ ss' = Collect(ss, touches')
    /\ changes' = 0
    /\ UNCHANGED << compat, data, settings, impl, lg, isMobile, doc, checkboxStyles,
                    cachedEnabledStyles >>

(***************************************************************************)
(* Legacy implementation: document-level mouse listeners, one menu and one *)
(* overlay held in fields of the plugin                                    *)
(***************************************************************************)
\* number of closeOnClickOutside listeners registered on the document
MaxListeners == 2

LEGACY_STYLES == << " ", "/", "x", "-" >>

\* a menu item of the legacy menu m
Item(m, i) == << "item", m, i >>

\* legacy isCheckboxLine(line): ^\s*-\s*\[[ \/\-x]\]\s*(.*)?$
legacyIsCheckboxLine(t) ==
    LET i == SkipWs(t, 1)
    IN /\ i <= Len(t) /\ t[i] = "-"
       /\ LET k == SkipWs(t, i + 1)
          IN /\ k + 2 <= Len(t) /\ t[k] = "[" /\ t[k + 2] = "]"
             /\ t[k + 1] \in {" ", "/", "-", "x"}

\* text.match(/-\s*\[(.)\]/): the leftmost match position at or after i, 0 if none
RECURSIVE LegacySymbolMatchFrom(_, _)
LegacySymbolMatchFrom(t, i) ==
    IF i > Len(t) THEN 0
    ELSE IF t[i] = "-" /\ LET k == SkipWs(t, i + 1)
                          IN k + 2 <= Len(t) /\ t[k] = "[" /\ t[k + 2] = "]"
    THEN i
    ELSE LegacySymbolMatchFrom(t, i + 1)

\* legacy hideMenu()
hideMenu(l) ==
    [ l EXCEPT
        !.dom = (IF l.overlayElement # 0 THEN @ \ { Overlay(l.overlayElement) } ELSE @)
                \ (IF l.menuElement # 0 THEN { Menu(l.menuElement) } ELSE {}),
        !.overlayElement = 0,
        !.menuElement = 0 ]

\* legacy resetState()
resetState(l) ==
    hideMenu([ l EXCEPT !.timer = FALSE, !.pending = 0, !.menuTimeout = FALSE,
                        !.isLongPress = FALSE, !.lastMouseDownEvent = FALSE,
                        !.targetView = FALSE ])

\* legacy handleMouseUp: clearTimeout(this.timer) keeps the handle in the field
legacyHandleMouseUp(l) == [ l EXCEPT !.pending = 0, !.isLongPress = FALSE ]

\* legacy startDismissTimeout()
legacyStartDismissTimeout(l) == [ l EXCEPT !.menuTimeout = TRUE ]

\* legacy applyCheckboxStyle(editor, pos, symbol)
legacyApplyCheckboxStyle(d, pos, symbol) ==
    LET n == lineAt(d, pos)
        text == d[n].text
        m == LegacySymbolMatchFrom(text, 1)
        startIndex == (m - 1) + IndexOfBracket(text, m, 0) + 1
    IN IF n = 0 THEN [ doc |-> d, changed |-> FALSE ]
       ELSE IF ~legacyIsCheckboxLine(text) \/ m = 0
       THEN [ doc |-> d, changed |-> FALSE ]
       ELSE [ doc |-> ReplaceChar(d, LineFrom(d, n) + startIndex, symbol),
              changed |-> TRUE ]

\* legacy showStyleMenu(event, checkbox): n is the identity of the new
\* overlay and menu elements; the Markdown view and its container exist
showStyleMenu(l, d, c, n) ==
    LET pos == posAtDOM(d, c)
    IN IF pos < 0 \/ pos > DocLength(d) THEN resetState(l)
       ELSE IF ~legacyIsCheckboxLine(d[lineAt(d, pos)].text) THEN resetState(l)
       ELSE [ hideMenu(l) EXCEPT
                !.overlayElement = n,
                !.anchor = c,
                !.menuElement = n,
                !.pos = pos,
                !.listeners = @ + 1,
                !.dom = @ \cup { Overlay(n), Menu(n) } ]

\* the pointer is over an element only while the element is attached
LegacyOver(l) ==
    IF \/ l.over = "overlay" /\ l.overlayElement = 0
       \/ l.over = "item" /\ l.menuElement = 0
    THEN [ l EXCEPT !.over = "none" ] ELSE l

\* elements a legacy mouse event can land on
LegacyTargets ==
    IF lg.over = "item" THEN { Item(lg.menuElement, i) : i \in 0..(Len(LEGACY_STYLES) - 1) }
    ELSE IF lg.over = "overlay" THEN { Ov(lg.overlayElement) }
    ELSE { Cb(c) : c \in { e \in CheckboxElements(doc) :
                             lg.overlayElement = 0 \/ lg.anchor # e } }
         \cup { Ov(n) : n \in { e \in Widgets : e = lg.overlayElement } }
         \cup { Other }

\* the long-press timer set by the legacy handleMouseDown fires
LegacyTimerFire ==
    /\ impl = "legacy"
    /\ lg.pending # 0
    /\ lg.listeners < MaxListeners
    /\ LET n == CHOOSE e \in Widgets :
                  /\ Overlay(e) \notin hideMenu(lg).dom
                  /\ \A f \in Widgets : Overlay(f) \notin hideMenu(lg).dom => e <= f
       IN lg' = LegacyOver(showStyleMenu([ lg EXCEPT !.pending = 0, !.isLongPress = TRUE ],
                                         doc, lg.pending, n))
    /\ changes' = 0
    /\ UNCHANGED << viewDestroyed, compat, data, settings, impl, isMobile, movedBeyond, doc, checkboxStyles, cachedEnabledStyles, timer,
                    lastTarget, touchStart, mouseHeld, hover, touches, ss >>

\* legacy handleMouseDown on the document, then the closeOnClickOutside
\* listeners: the first one registered hides the menu and removes itself
LegacyMouseDown(tgt) ==
    /\ impl = "legacy"
    /\ ~mouseHeld
    /\ tgt \in LegacyTargets
    /\ LET l1 == IF tgt[1] = "cb"
                 THEN [ lg EXCEPT !.lastMouseDownEvent = TRUE, !.targetView = TRUE,
                                  !.timer = TRUE, !.pending = tgt[2] ]
                 ELSE lg
           l2 == IF l1.listeners > 0 /\ l1.menuElement # 0 /\ tgt[1] # "item"
                 THEN [ hideMenu(l1) EXCEPT !.listeners = @ - 1 ]
                 ELSE l1
       IN lg' = LegacyOver(l2)
    /\ mouseHeld' = TRUE
    /\ changes' = 0
    /\ UNCHANGED << viewDestroyed, compat, data, settings, impl, isMobile, movedBeyond, doc, checkboxStyles, cachedEnabledStyles, timer,
                    lastTarget, touchStart, hover, touches, ss >>

\* mouseup: the item's listener (applyCheckboxStyle, hideMenu), the overlay's
\* listener (stopPropagation), and the legacy handleMouseUp on the document
LegacyMouseUp(tgt) ==
    /\ impl = "legacy"
    /\ mouseHeld
    /\ tgt \in LegacyTargets
    /\ mouseHeld' = FALSE
    /\ IF tgt[1] = "item"
       THEN LET a == legacyApplyCheckboxStyle(doc, lg.pos, LEGACY_STYLES[tgt[3] + 1])
            IN /\ doc' = a.doc
               /\ changes' = IF a.changed THEN 1 ELSE 0
               /\ lg' = LegacyOver(legacyHandleMouseUp(hideMenu(lg)))
       ELSE /\ lg' = IF tgt[1] = "overlay" THEN lg ELSE legacyHandleMouseUp(lg)
            /\ changes' = 0
            /\ UNCHANGED doc
    /\ UNCHANGED << viewDestroyed, compat, data, settings, impl, isMobile, movedBeyond, checkboxStyles, cachedEnabledStyles, timer,
                    lastTarget, touchStart, hover, touches, ss >>

\* mouseenter on the overlay or on a menu item: the dismiss timer is cleared
LegacyMouseEnter(e) ==
    /\ impl = "legacy"
    /\ lg.over = "none"
    /\ IF e = "overlay" THEN lg.overlayElement # 0 ELSE lg.menuElement # 0
    /\ lg' = [ lg EXCEPT !.over = e, !.menuTimeout = FALSE ]
    /\ changes' = 0
    /\ UNCHANGED << viewDestroyed, compat, data, settings, impl, isMobile, movedBeyond, doc, checkboxStyles, cachedEnabledStyles, timer,
                    lastTarget, touchStart, mouseHeld, hover, touches, ss >>

\* mouseleave on the overlay or on a menu item: startDismissTimeout()
LegacyMouseLeave ==
    /\ impl = "legacy"
    /\ lg.over # "none"
    /\ lg' = legacyStartDismissTimeout([ lg EXCEPT !.over = "none" ])
    /\ changes' = 0
    /\ UNCHANGED << viewDestroyed, compat, data, settings, impl, isMobile, movedBeyond, doc, checkboxStyles, cachedEnabledStyles, timer,
                    lastTarget, touchStart, mouseHeld, hover, touches, ss >>

\* the legacy dismiss timer fires: hideMenu(), menuTimeout = null
LegacyDismissFire ==
    /\ impl = "legacy"
    /\ lg.menuTimeout
    /\ lg' = LegacyOver([ hideMenu(lg) EXCEPT !.menuTimeout = FALSE ])
    /\ changes' = 0
    /\ UNCHANGED << viewDestroyed, compat, data, settings, impl, isMobile, movedBeyond, doc, checkboxStyles, cachedEnabledStyles, timer,
                    lastTarget, touchStart, mouseHeld, hover, touches, ss >>

\* the active-leaf-change callback: resetState() unless the timer field holds
\* a handle
onActiveLeafChange(l) == IF ~l.timer THEN resetState(l) ELSE l

\* active-leaf-change
ActiveLeafChange ==
    /\ impl = "legacy"
    /\ lg' = LegacyOver(onActiveLeafChange(lg))
    /\ changes' = 0
    /\ UNCHANGED << viewDestroyed, compat, data, settings, impl, isMobile, movedBeyond, doc, checkboxStyles, cachedEnabledStyles, timer,
                    lastTarget, touchStart, mouseHeld, hover, touches, ss >>

(***************************************************************************)
(* Specification                                                           *)
(***************************************************************************)
\* inputs of the touch events: the position and the elapsed time are drawn
\* from all their values where a listener reads them, and fixed elsewhere
MovePoints(tgt) ==
    IF OverlayBlocks(ss, tgt) \/ touchStart # << >> THEN Points ELSE Origins

EndPoints(tgt) ==
    IF tgt[1] = "li" /\ ss.widgets[tgt[2]].touchStart # << >> THEN Points ELSE Origins

EndDurations(tgt) ==
    IF tgt[1] = "li" /\ ss.widgets[tgt[2]].touchStart # << >>
    THEN Durations ELSE { TAP_TIME_THRESHOLD }

Next ==
    \/ LongPressTimerFire
    \/ \E w \in Widgets : RenderDone(w)
    \/ \E w \in Widgets : DismissTimerFire(w)
    \/ \E w \in Widgets : RestartTimerFire(w)
    \/ WheelOnOverlay
    \/ OverlayRestoreFire
    \/ \E tgt \in PointerTargets(ss, doc) : MouseDown(tgt)
    \/ \E tgt \in PointerTargets(ss, doc) : MouseUp(tgt)
    \/ \E w \in Widgets : MouseEnter(w)
    \/ \E w \in Widgets : MouseLeave(w)
    \/ \E tgt \in PointerTargets(ss, doc), p \in Origins : TouchStart(tgt, p)
    \/ \E tgt \in touches : \E p \in MovePoints(tgt) : TouchMove(tgt, p)
    \/ \E tgt \in touches : \E p \in EndPoints(tgt), dur \in EndDurations(tgt) : TouchEnd(tgt, p, dur)
    \/ \E tgt \in touches : TouchCancel(tgt)
    \/ OrientationChange
    \/ EditDocument
    \/ ViewDestroy
    \/ LegacyTimerFire
    \/ \E tgt \in LegacyTargets : LegacyMouseDown(tgt)
    \/ \E tgt \in LegacyTargets : LegacyMouseUp(tgt)
    \/ \E e \in {"overlay", "item"} : LegacyMouseEnter(e)
    \/ LegacyMouseLeave
    \/ LegacyDismissFire
    \/ ActiveLeafChange

Spec == Init /\ [][Next]_vars

(***************************************************************************)
(* Tasks-compatibility module                                              *)
(***************************************************************************)
\* calls of applyStyleViaClick in one behaviour
MaxCalls == 2

\* symbols a checkbox can hold: the catalog and the upper-case "X"
Symbols == { CHECKBOX_STYLES[i] : i \in 1..Len(CHECKBOX_STYLES) } \cup { "X" }

\* isBasicToggleState(symbol)
isBasicToggleState(symbol) == symbol = " " \/ symbol = "x" \/ symbol = "X"

\* mutant of shouldUseClickForToggle: a cancelled task is clicked as well
shouldUseClickAlsoCancelled(currentSymbol, targetSymbol, tasksCompatibilityEnabled) ==
    IF ~tasksCompatibilityEnabled THEN FALSE
    ELSE IF currentSymbol = targetSymbol THEN FALSE
    ELSE IF ~isBasicToggleState(targetSymbol) THEN FALSE
    ELSE IF targetSymbol = "x" \/ targetSymbol = "X" THEN TRUE
    ELSE currentSymbol = "x" \/ currentSymbol = "X" \/ currentSymbol = "-"

\* mutant of shouldUseClickForToggle: the compatibility flag is not read
shouldUseClickIgnoresFlag(currentSymbol, targetSymbol, tasksCompatibilityEnabled) ==
    IF currentSymbol = targetSymbol THEN FALSE
    ELSE IF ~isBasicToggleState(targetSymbol) THEN FALSE
    ELSE IF targetSymbol = "x" \/ targetSymbol = "X" THEN currentSymbol # "-"
    ELSE currentSymbol = "x" \/ currentSymbol = "X" \/ currentSymbol = "-"

\* shouldUseClickForToggle(currentSymbol, targetSymbol, tasksCompatibilityEnabled)
shouldUseClickForToggle(currentSymbol, targetSymbol, tasksCompatibilityEnabled) ==
    IF ~tasksCompatibilityEnabled THEN FALSE
    ELSE IF currentSymbol = targetSymbol THEN FALSE
    ELSE IF ~isBasicToggleState(targetSymbol) THEN FALSE
    ELSE IF targetSymbol = "x" \/ targetSymbol = "X" THEN currentSymbol # "-"
    ELSE currentSymbol = "x" \/ currentSymbol = "X" \/ currentSymbol = "-"

\* the symbol a native click leaves on a checkbox, as the module documents it
nativeClick(symbol) ==
    IF symbol = " " THEN "x"
    ELSE IF symbol \in {"x", "X", "-"} THEN " "
    ELSE "x"

\* mutant of applyStyleViaClick: the overlay is not removed before the click
\* is scheduled
applyStyleViaClickKeepsOverlay(c, removeThrows) ==
    [ c EXCEPT !.calls = @ + 1, !.returned = TRUE, !.shouldHideMenu = FALSE,
               !.timers = @ + 1 ]

\* applyStyleViaClick(targetElement, overlayManager): removeThrows tells
\* whether overlayManager.remove() throws, which the catch block handles
applyStyleViaClick(c, removeThrows) ==
    IF removeThrows
    THEN [ c EXCEPT !.calls = @ + 1, !.returned = TRUE, !.shouldHideMenu = TRUE ]
    ELSE [ c EXCEPT !.calls = @ + 1, !.returned = TRUE, !.shouldHideMenu = FALSE,
                    !.overlayElement = FALSE,
                    !.timers = @ + 1 ]

\* the callback given to setTimeout: it runs after applyStyleViaClick has
\* returned, so an exception of new MouseEvent or dispatchEvent is not caught
\* by the try block of applyStyleViaClick
clickCallback(c, dispatchThrows) ==
    IF dispatchThrows
    THEN [ c EXCEPT !.timers = @ - 1, !.dispatchFailed = TRUE, !.escaped = TRUE ]
    ELSE [ c EXCEPT !.timers = @ - 1, !.clicks = @ + 1 ]

\* a style was picked for a checkbox: any current and target symbol, with
\* the compatibility setting on or off
CompatInit ==
    /\ PluginInit /\ impl = "current" /\ ~isMobile /\ checkboxStyles = {}
    /\ data = NullData
    /\ settings = loadSettings(NullData)
    /\ \E cur \in Symbols, tgt \in Symbols, enabled \in BOOLEAN :
          compat = [ NoCompat EXCEPT !.currentSymbol = cur, !.targetSymbol = tgt,
                                     !.tasksCompatibilityEnabled = enabled ]

\* the caller asks how to apply the style
ShouldUseClickForToggle ==
    /\ ~compat.decided
    /\ compat' = [ compat EXCEPT
                     !.decided = TRUE,
                     !.useClick = shouldUseClickForToggle(compat.currentSymbol,
                                      compat.targetSymbol,
                                      compat.tasksCompatibilityEnabled) ]
    /\ UNCHANGED << pluginVars, data, settings >>

\* the caller applies the style by a click, when that was the decision
ApplyStyleViaClick(removeThrows) ==
    /\ compat.decided /\ compat.useClick
    /\ compat.calls < MaxCalls
    /\ compat' = applyStyleViaClick(compat, removeThrows)
    /\ UNCHANGED << pluginVars, data, settings >>

\* a 10 ms timer set by applyStyleViaClick fires
ClickTimerFire(dispatchThrows) ==
    /\ compat.timers > 0
    /\ compat' = clickCallback(compat, dispatchThrows)
    /\ UNCHANGED << pluginVars, data, settings >>

CompatNext ==
    \/ ShouldUseClickForToggle
    \/ \E removeThrows \in BOOLEAN : ApplyStyleViaClick(removeThrows)
    \/ \E dispatchThrows \in BOOLEAN : ClickTimerFire(dispatchThrows)

CompatSpec == CompatInit /\ [][CompatNext]_vars

(***************************************************************************)
(* Tasks-compatibility module: settings validation, watcher and notice     *)
(***************************************************************************)
\* calls of the module's functions in one behaviour
MaxCompatRuns == 3

\* the App objects: without a plugin registry, with a registry that has no
\* entry for Tasks, with a null entry, and with the Tasks plugin object
Apps == { "noRegistry", "absent", "null", "present" }

\* target symbols of a style application
NoticeSymbols == { "x", "X", " ", "/" }

\* app.plugins?.plugins?.['obsidian-tasks-plugin']
TasksEntry(app) ==
    CASE app = "present" -> "object"
      [] app = "null" -> "null"
      [] OTHER -> "undefined"

\* isTasksPluginInstalled(app)
isTasksPluginInstalled(app) == TasksEntry(app) # "undefined"

\* mutant of validateAndFixCompatibilitySettings: every call reports a change
validateAndFixAlwaysChanged(c) ==
    IF c.enableTasksCompatibility /\ ~isTasksPluginInstalled(c.app)
    THEN [ c EXCEPT !.enableTasksCompatibility = FALSE, !.wasChanged = TRUE ]
    ELSE [ c EXCEPT !.wasChanged = TRUE ]

\* validateAndFixCompatibilitySettings(settings, app); wasChanged is the
\* field of the object it returns
validateAndFixCompatibilitySettings(c) ==
    IF c.enableTasksCompatibility /\ ~isTasksPluginInstalled(c.app)
    THEN [ c EXCEPT !.enableTasksCompatibility = FALSE, !.wasChanged = TRUE ]
    ELSE [ c EXCEPT !.wasChanged = FALSE ]

\* the callback returned by createCompatibilityWatcher; saves counts the
\* calls of onSettingsChanged and of saveSettings
compatibilityWatcher(c) ==
    LET v == validateAndFixCompatibilitySettings(c)
    IN IF v.wasChanged THEN [ v EXCEPT !.saves = @ + 1 ] ELSE v

\* mutant of maybeShowTasksNotice: the flag is not set after the notice
maybeShowTasksNoticeKeepsFlag(c, targetSymbol) ==
    IF c.hasShownTasksNotice THEN c
    ELSE IF ~isTasksPluginInstalled(c.app) THEN c
    ELSE IF c.enableTasksCompatibility THEN c
    ELSE IF targetSymbol # "x" /\ targetSymbol # "X" THEN c
    ELSE [ c EXCEPT !.notices = @ + 1, !.saves = @ + 1 ]

\* maybeShowTasksNotice(app, targetSymbol, settings, saveSettings); notices
\* counts the Notice objects created
maybeShowTasksNotice(c, targetSymbol) ==
    IF c.hasShownTasksNotice THEN c
    ELSE IF ~isTasksPluginInstalled(c.app) THEN c
    ELSE IF c.enableTasksCompatibility THEN c
    ELSE IF targetSymbol # "x" /\ targetSymbol # "X" THEN c
    ELSE [ c EXCEPT !.notices = @ + 1,
                    !.hasShownTasksNotice = TRUE,
                    !.saves = @ + 1 ]

\* the settings object and the App the module's functions are called with
CompatSettingsInit ==
    /\ PluginInit /\ impl = "current" /\ ~isMobile /\ checkboxStyles = {}
    /\ data = NullData
    /\ settings = loadSettings(NullData)
    /\ \E app \in Apps, enabled \in BOOLEAN, shown \in BOOLEAN :
          compat = [ NoCompat EXCEPT !.app = app,
                                     !.enableTasksCompatibility = enabled,
                                     !.hasShownTasksNotice = shown ]

\* a call of validateAndFixCompatibilitySettings
ValidateAndFixCompatibilitySettings ==
    /\ compat.runs < MaxCompatRuns
    /\ compat' = [ validateAndFixCompatibilitySettings(compat) EXCEPT !.runs = @ + 1 ]
    /\ UNCHANGED << pluginVars, data, settings >>

\* a run of the watcher on layout-change
CompatibilityWatcher ==
    /\ compat.runs < MaxCompatRuns
    /\ compat' = [ compatibilityWatcher(compat) EXCEPT !.runs = @ + 1 ]
    /\ UNCHANGED << pluginVars, data, settings >>

\* a call of maybeShowTasksNotice when a style is applied
MaybeShowTasksNotice(targetSymbol) ==
    /\ compat.runs < MaxCompatRuns
    /\ compat' = [ maybeShowTasksNotice(compat, targetSymbol) EXCEPT !.runs = @ + 1 ]
    /\ UNCHANGED << pluginVars, data, settings >>

\* the user enables or disables a plugin, Tasks among them
PluginsChange(app) ==
    /\ app # compat.app
    /\ compat' = [ compat EXCEPT !.app = app ]
    /\ UNCHANGED << pluginVars, data, settings >>

\* the owner of the settings object switches the integration, which its
\* settings page offers while Tasks is installed (showToggle)
SetTasksCompatibility(value) ==
    /\ isTasksPluginInstalled(compat.app)
    /\ value # compat.enableTasksCompatibility
    /\ compat' = [ compat EXCEPT !.enableTasksCompatibility = value ]
    /\ UNCHANGED << pluginVars, data, settings >>

CompatSettingsNext ==
    \/ ValidateAndFixCompatibilitySettings
    \/ CompatibilityWatcher
    \/ \E targetSymbol \in NoticeSymbols : MaybeShowTasksNotice(targetSymbol)
    \/ \E app \in Apps : PluginsChange(app)
    \/ \E value \in BOOLEAN : SetTasksCompatibility(value)

CompatSettingsSpec == CompatSettingsInit /\ [][CompatSettingsNext]_vars

(***************************************************************************)
(* Settings: loading the persisted data at onload                          *)
(***************************************************************************)
\* values a persisted duration field can hold: absent, null, a boolean,
\* strings with and without a leading number, and numbers around the limits
\* of both ranges
DurationInputs ==
    { Undefined, Null, Bool(TRUE),
      Str(<< "a", "b", "c" >>), Str(<< "1", "5", "0" >>),
      Str(<< " ", "2", "5", "0", "p", "x" >>), Str(<< "-", "5" >>),
      Str(<< "0", "x", "6", "4" >>) }
    \cup { Num(n) : n \in {-1, 0, 99, 100, 199, 200, 350, 1000, 1001, 1500, 1501} }

PersistedData ==
    { NullData, NonObjectData }
    \cup { ObjectData(lp, tlp, Undefined) : lp \in DurationInputs, tlp \in DurationInputs }

\* the plugin is constructed and loadData() will resolve to data
SettingsInit ==
    /\ PluginInit /\ impl = "current" /\ ~isMobile /\ checkboxStyles = {}
    /\ compat = NoCompat
    /\ data \in PersistedData
    /\ settings = NoSettings

\* updateCheckboxStyles(): the enabled flags are those of settings.styles and
\* the cached list is dropped
updateCheckboxStyles(st) ==
    [ checkboxStyles |-> st.styles \cap Catalog,
      cachedEnabledStyles |-> [ valid |-> FALSE, list |-> << >> ] ]

\* onload: await this.loadSettings(); this.updateCheckboxStyles()
LoadSettings ==
    /\ ~settings.loaded
    /\ settings' = loadSettings(data)
    /\ checkboxStyles' = updateCheckboxStyles(settings').checkboxStyles
    /\ cachedEnabledStyles' = updateCheckboxStyles(settings').cachedEnabledStyles
    /\ UNCHANGED << editorVars, compat, data >>

SettingsNext == LoadSettings

SettingsSpec == SettingsInit /\ [][SettingsNext]_vars

(***************************************************************************)
(* Settings tab: sliders, text fields, style toggles, Reset, saveSettings   *)
(***************************************************************************)
\* saveData calls that can be pending together
MaxPendingSaves == 1

\* styles that are toggled: one that is enabled by default and one that is not
ToggleSymbols == { "x", "!" }

\* what the settings tab starts from: nothing saved (fresh install), or a
\* saved object with durations outside their ranges and a styles object
TabPersistedData ==
    { NullData,
      WithStyles(ObjectData(Num(99), Num(1501), Undefined),
                 StylesObject({ "!" }, { "x" })) }

\* values a slider with limits min and max reports
SliderValues(min, max) == { max }

\* texts typed into a duration field
TextInputs == { << "2", "5", "0" >>, << "9", "9" >>, << "1", "5", "0", "1" >>, << "a" >> }

\* Math.max(min, Math.min(max, value))
Clamp(value, min, max) ==
    LET upper == IF value < max THEN value ELSE max
    IN IF upper > min THEN upper ELSE min

\* what saveData(this.settings) writes
Persisted(st) ==
    WithStyles(ObjectData(Num(st.longPressDuration), Num(st.touchLongPressDuration),
                          st.enableHapticFeedback),
               StylesObject(st.styles, Catalog \ st.styles))

\* saveSettings() up to its await: the durations are clamped and saveData is
\* called
saveSettings(st) ==
    LET c == [ st EXCEPT
                 !.longPressDuration = Clamp(@, 100, 1000),
                 !.touchLongPressDuration = Clamp(@, 200, 1500) ]
    IN [ c EXCEPT !.saving = Append(@, Persisted(c)) ]

\* the plugin is constructed and loadData() will resolve to data
SettingsTabInit ==
    /\ PluginInit /\ impl = "current" /\ ~isMobile /\ checkboxStyles = {}
    /\ compat = NoCompat
    /\ data \in TabPersistedData
    /\ settings = NoSettings

\* a settings control can be used: the settings are loaded and fewer than
\* MaxPendingSaves saves are pending
TabReady == settings.loaded /\ Len(settings.saving) < MaxPendingSaves

\* the slider of a duration setting reports value
SliderChange(key, value) ==
    /\ TabReady
    /\ settings' = saveSettings([ settings EXCEPT ![key] = value ])
    /\ UNCHANGED << pluginVars, compat, data >>

\* the text field of a duration setting reports text
TextChange(key, min, max, text) ==
    /\ TabReady
    /\ LET numValue == parseIntString(text)
       IN settings' = IF numValue.t # "NaN" /\ numValue.v >= min /\ numValue.v <= max
                      THEN saveSettings([ settings EXCEPT ![key] = numValue.v ])
                      ELSE settings
    /\ UNCHANGED << pluginVars, compat, data >>

\* the toggle's onChange on the style objects: styleObj.enabled = value
toggleStyleObject(enabled, sym, value) ==
    IF value THEN enabled \cup { sym } ELSE enabled \ { sym }

\* the toggle of a style reports value: the flag is written into
\* settings.styles, which on a fresh install is DEFAULT_SETTINGS.styles itself
StyleToggle(sym, value) ==
    /\ TabReady
    /\ LET st == IF value THEN settings.styles \cup { sym } ELSE settings.styles \ { sym }
       IN settings' = saveSettings(
              [ settings EXCEPT
                  !.styles = st,
                  !.defaultStyles = IF settings.stylesAliased THEN st ELSE @ ])
    /\ checkboxStyles' = toggleStyleObject(checkboxStyles, sym, value)
    /\ UNCHANGED << editorVars, cachedEnabledStyles, compat, data >>

\* the Reset button: settings.styles = { ...DEFAULT_SETTINGS.styles }
ResetStyles ==
    /\ TabReady
    /\ settings' = saveSettings([ settings EXCEPT !.styles = settings.defaultStyles,
                                                   !.stylesAliased = FALSE ])
    /\ UNCHANGED << pluginVars, compat, data >>

\* a saveData call completes.  When it resolves, saveSettings continues with
\* updateCheckboxStyles(); when it rejects, saveSettings ends there.
SaveDone(resolved) ==
    /\ settings.loaded /\ Len(settings.saving) > 0
    /\ settings' = [ settings EXCEPT !.saving = Tail(@) ]
    /\ IF resolved
       THEN /\ data' = Head(settings.saving)
            /\ checkboxStyles' = updateCheckboxStyles(settings).checkboxStyles
            /\ cachedEnabledStyles' = updateCheckboxStyles(settings).cachedEnabledStyles
       ELSE UNCHANGED << data, checkboxStyles, cachedEnabledStyles >>
    /\ UNCHANGED << editorVars, compat >>

\* a menu is opened: createMenu reads plugin.getEnabledStyles()
GetEnabledStyles ==
    /\ settings.loaded
    /\ ~cachedEnabledStyles.valid
    /\ cachedEnabledStyles' = CacheAfterGet(cachedEnabledStyles, checkboxStyles)
    /\ UNCHANGED << editorVars, checkboxStyles, compat, data, settings >>

SettingsTabNext ==
    \/ LoadSettings
    \/ \E value \in SliderValues(100, 1000) : SliderChange("longPressDuration", value)
    \/ \E value \in SliderValues(200, 1500) : SliderChange("touchLongPressDuration", value)
    \/ \E text \in TextInputs : TextChange("longPressDuration", 100, 1000, text)
    \/ \E text \in TextInputs : TextChange("touchLongPressDuration", 200, 1500, text)
    \/ \E sym \in ToggleSymbols, value \in BOOLEAN : StyleToggle(sym, value)
    \/ ResetStyles
    \/ \E resolved \in BOOLEAN : SaveDone(resolved)
    \/ GetEnabledStyles

SettingsTabSpec == SettingsTabInit /\ [][SettingsTabNext]_vars

(***************************************************************************)
(* The editor on the desktop while the settings tab is used: style toggles *)
(* and their saves interleave with the menu                                *)
(***************************************************************************)
\* the style toggled while a menu is open: the first of the enabled ones
MenuToggleSymbols == { " " }

\* the plugin in a desktop editor with the styles ' ' and 'x' enabled
MenuSettingsInit ==
    /\ Init
    /\ impl = "current" /\ ~isMobile
    /\ checkboxStyles = { " ", "x" }

MenuSettingsNext ==
    \/ LongPressTimerFire
    \/ \E w \in Widgets : RenderDone(w)
    \/ \E w \in Widgets : DismissTimerFire(w)
    \/ \E tgt \in PointerTargets(ss, doc) : MouseDown(tgt)
    \/ \E tgt \in PointerTargets(ss, doc) : MouseUp(tgt)
    \/ \E w \in Widgets : MouseEnter(w)
    \/ \E w \in Widgets : MouseLeave(w)
    \/ \E sym \in MenuToggleSymbols, value \in BOOLEAN : StyleToggle(sym, value)
    \/ \E resolved \in BOOLEAN : SaveDone(resolved)

MenuSettingsSpec == MenuSettingsInit /\ [][MenuSettingsNext]_vars

(***************************************************************************)
(* The editor on the desktop while other components of the application     *)
(* edit the text above the anchor and show their own tooltips              *)
(***************************************************************************)
\* the task line that an edit inserts at the start of the document
InsertedLine == Line(<< "-", " ", "[", "x", "]", " ", "b" >>, 3)

\* a transaction that inserts a task line above every other line and carries
\* no effect: the state field keeps its value, an open widget its linePos
InsertLineAbove ==
    /\ impl = "current" /\ ~viewDestroyed
    /\ doc \in InitDocs
    /\ doc' = << InsertedLine >> \o doc
    /\ changes' = 0
    /\ UNCHANGED << viewDestroyed, compat, data, settings, impl, lg, isMobile, movedBeyond,
                    checkboxStyles, cachedEnabledStyles, timer, lastTarget, touchStart,
                    mouseHeld, hover, touches, ss >>

\* a tooltip element that the host application or another plugin attaches
HostTooltip == << "tooltip", 0 >>

\* another component of the application shows a tooltip
HostTooltipShown ==
    /\ impl = "current" /\ ~viewDestroyed
    /\ HostTooltip \notin ss.dom
    /\ ss' = [ ss EXCEPT !.dom = @ \cup { HostTooltip } ]
    /\ changes' = 0
    /\ UNCHANGED << viewDestroyed, compat, data, settings, impl, lg, isMobile, movedBeyond,
                    doc, checkboxStyles, cachedEnabledStyles, timer, lastTarget, touchStart,
                    mouseHeld, hover, touches >>

MenuEditNext ==
    \/ LongPressTimerFire
    \/ \E w \in Widgets : RenderDone(w)
    \/ \E w \in Widgets : DismissTimerFire(w)
    \/ \E tgt \in PointerTargets(ss, doc) : MouseDown(tgt)
    \/ \E tgt \in PointerTargets(ss, doc) : MouseUp(tgt)
    \/ \E w \in Widgets : MouseEnter(w)
    \/ \E w \in Widgets : MouseLeave(w)
    \/ InsertLineAbove
    \/ HostTooltipShown

MenuEditSpec == MenuSettingsInit /\ [][MenuEditNext]_vars

(***************************************************************************)
(* Properties                                                              *)
(***************************************************************************)
MenusAttached == { e \in ss.dom : e[1] = "menu" }
OverlaysAttached == { e \in ss.dom : e[1] = "overlay" }

\* the press that started the pending long-press timer is still held
PressHeld == IF isMobile THEN touches = { Cb(timer) } ELSE mouseHeld

\* a step in which a timer or the renderer runs, not an input event
TimerStep ==
    \/ LongPressTimerFire
    \/ OverlayRestoreFire
    \/ \E w \in Widgets : RenderDone(w) \/ DismissTimerFire(w) \/ RestartTimerFire(w)

\* a step in which entry i of the menu of widget w is selected
SelectStep(w, i) ==
    \/ Desktop /\ ss.widgets[w].abortController /\ MouseUp(Li(w, i))
    \/ /\ Mobile /\ ss.widgets[w].abortController /\ Menu(w) \in ss.dom
       /\ ss.widgets[w].touchStart # << >>
       /\ \E p \in Points, dur \in Durations :
             IsTap(ss.widgets[w].touchStart, p, dur) /\ TouchEnd(Li(w, i), p, dur)

\* position in text t of the "[" that follows the list marker at the start
BracketAfterMarker(t) == SkipWs(t, MarkerEnd(t, SkipWs(t, 1)))

\* the symbol of entry i as the selection reads it
SelectedSymbol(i) == getEnabledStyles(cachedEnabledStyles, checkboxStyles)[i + 1]

\* the session's line still matches the checkbox pattern
SessionLineMatches(w) ==
    /\ lineAt(doc, ss.widgets[w].linePos) # 0
    /\ isCheckboxLine(doc[lineAt(doc, ss.widgets[w].linePos)].text)

\* the status symbol on the session's line
CurrentSymbol(w) ==
    LET text == doc[lineAt(doc, ss.widgets[w].linePos)].text
    IN text[BracketAfterMarker(text) + 1]

\* C1: at most one menu element and at most one overlay element are attached
\* in every reachable state, and a long-press confirmed while a session is
\* open leaves nothing of the earlier session: its menu, overlay, dismiss
\* timer and listeners are gone when the new overlay and widget exist.
C1_EarlierSessionRemoved ==
    LET old == ss.widget
        oldOverlay == ss.overlayManager.overlayElement
    IN (LongPressTimerFire /\ old # 0 /\ ss'.widget # old)
       => /\ Menu(old) \notin ss'.dom
          /\ oldOverlay # 0 => Overlay(oldOverlay) \notin ss'.dom
          /\ ~ss'.widgets[old].menuTimeout
          /\ ~ss'.widgets[old].abortController
          /\ ~ss'.widgets[old].cleanupScrollIndicators
          /\ ss'.widget # 0
          /\ MenusAttached' \subseteq { Menu(ss'.widget) }
          /\ OverlaysAttached' = { Overlay(ss'.overlayManager.overlayElement) }

C1_AtMostOneSession ==
    /\ [](Cardinality(MenusAttached) <= 1 /\ Cardinality(OverlaysAttached) <= 1)
    /\ [][C1_EarlierSessionRemoved]_vars

\* a second session has replaced the first, and its menu is shown
C1_Witness ==
    /\ Desktop
    /\ ss.widget = 2 /\ ss.widgets[1].phase = "unborn"
    /\ ss.dom = { Menu(2), Overlay(2) }

\* C2: when the long-press timer of a held press on a checkbox line fires,
\* exactly one new session is opened, with widget and overlay anchored to the
\* pressed checkbox and its document position; and while the press stays
\* held without moving beyond the threshold the timer stays pending until then.
C2_Opens ==
    (LongPressTimerFire /\ PressHeld /\ LongPressOpens(doc, timer))
    => LET born == { w \in Widgets : ss.widgets[w].phase = "unborn"
                                     /\ ss'.widgets[w].phase # "unborn" }
       IN /\ Cardinality(born) = 1
          /\ ss'.widget \in born
          /\ ss'.widget # ss.widget
          /\ ss'.widgets[ss'.widget].target = timer
          /\ ss'.widgets[ss'.widget].linePos = posAtDOM(doc, timer)
          /\ ss'.overlayManager.anchor = timer
          /\ Overlay(ss'.overlayManager.overlayElement) \in ss'.dom
          /\ timer' = 0

C2_StaysPending ==
    LET stillHeld == IF isMobile THEN touches' = { Cb(timer) } ELSE mouseHeld'
        movesBeyond == /\ touchStart # << >>
                       /\ \E tgt \in touches, p \in Points :
                             MovedTooFar(touchStart, p) /\ TouchMove(tgt, p)
    IN (impl = "current" /\ timer # 0 /\ PressHeld /\ stillHeld /\ ~movesBeyond)
       => (timer' = timer \/ LongPressTimerFire)

C2_HeldPressOpensOneSession == [][C2_Opens]_vars /\ [][C2_StaysPending]_vars

\* the held press on the second checkbox has just opened its session
C2_Witness ==
    /\ impl = "current" /\ timer = 0
    /\ IF isMobile THEN touches = { Cb(2) } ELSE mouseHeld
    /\ ss.widget # 0
    /\ ss.widgets[ss.widget].target = 2
    /\ ss.widgets[ss.widget].linePos = posAtDOM(doc, 2)
    /\ ss.widgets[ss.widget].phase = "rendering"
    /\ ss.overlayManager.anchor = 2

\* C3: a release of the press before the long-press timer has fired leaves no
\* long-press timer pending, wherever the pointer or finger is released.
C3_ReleaseCancelsTimer ==
    [][ LET released ==
              \/ Desktop /\ mouseHeld /\ ~mouseHeld'
              \/ Mobile /\ \E tgt \in touches, p \in Points, dur \in Durations :
                               TouchEnd(tgt, p, dur) /\ touches' = {}
        IN (timer # 0 /\ released) => timer' = 0 ]_vars

\* C4: no long-press gesture is still pending once its touch has moved
\* farther than the scroll threshold from its origin: the touchmove cleared
\* the timer, whatever the number of active touch points.
C4_MoveCancelsGesture == ~(timer # 0 /\ movedBeyond)

\* C5: selecting a symbol that differs from the current one, on a line that
\* still matches the checkbox pattern, dispatches exactly one change, and the
\* document differs from the old one exactly in the character between "["
\* and "]" after the list marker, which is the selected symbol; the two
\* examples of the specification give the stated lines.
C5_Examples ==
    /\ applyCheckboxStyle(
          << Line(<< "-", " ", "[", " ", "]", " ", "B", "u", "y", " ", "m", "i", "l", "k" >>, 1) >>,
          2, "x").doc[1].text
       = << "-", " ", "[", "x", "]", " ", "B", "u", "y", " ", "m", "i", "l", "k" >>
    /\ applyCheckboxStyle(
          << Line(<< " ", " ", "-", " ", "[", "!", "]", " ", "C", "a", "l", "l", " ", "m", "o", "m" >>, 1) >>,
          4, " ").doc[1].text
       = << " ", " ", "-", " ", "[", " ", "]", " ", "C", "a", "l", "l", " ", "m", "o", "m" >>

C5_Selection ==
    \A w \in Widgets : \A i \in 0..(Len(ss.widgets[w].rendered) - 1) :
        (/\ SelectStep(w, i)
         /\ SessionLineMatches(w)
         /\ SelectedSymbol(i) # CurrentSymbol(w))
        => LET n == lineAt(doc, ss.widgets[w].linePos)
               k == BracketAfterMarker(doc[n].text)
           IN /\ changes' = 1
              /\ doc' = [ doc EXCEPT ![n].text[k + 1] = SelectedSymbol(i) ]

C5_OneCharacterReplaced == [](C5_Examples) /\ [][C5_Selection]_vars

\* the first line has been restyled from " " to "x" by the last event
C5_Witness ==
    /\ impl = "current" /\ changes = 1
    /\ doc[1].text = << "-", " ", "[", "x", "]", " ", "a" >>

\* C6: selecting the entry whose symbol equals the current status symbol
\* dispatches no document change, and the session is closed.
C6_SameSymbolNoChange ==
    [][ \A w \in Widgets : \A i \in 0..(Len(ss.widgets[w].rendered) - 1) :
          (/\ SelectStep(w, i)
           /\ SessionLineMatches(w)
           /\ SelectedSymbol(i) = CurrentSymbol(w))
          => /\ changes' = 0
             /\ doc' = doc
             /\ ss'.widget = 0
             /\ MenusAttached' = {} /\ OverlaysAttached' = {} ]_vars

\* C7: a widget that is no longer the one held by the state field has no
\* pending dismiss timer, no pending callback that starts one, and no
\* listener left: nothing of a closed session can run hide later.
C7_NoLeftoverCallbacks ==
    \A w \in Widgets :
        (ss.widgets[w].phase # "unborn" /\ ss.widget # w)
        => /\ ~ss.widgets[w].menuTimeout
           /\ ~ss.widgets[w].restartPending
           /\ ~ss.widgets[w].abortController

\* C8: when a menu is shown its dismiss timer is pending; steps that are not
\* input events leave it pending unless the session is closed; and when it
\* fires for the open session, menu and overlay are detached, the state
\* field holds no widget and no listener of the session is attached.
C8_TimerStarted ==
    \A w \in Widgets :
        (ss.widgets[w].phase # "shown" /\ ss'.widgets[w].phase = "shown")
        => (ss'.widget = w /\ ss'.widgets[w].menuTimeout /\ Menu(w) \in ss'.dom)

C8_TimerKept ==
    \A w \in Widgets :
        (ss.widget = w /\ ss.widgets[w].menuTimeout /\ TimerStep)
        => \/ ss'.widget = w /\ ss'.widgets[w].menuTimeout
           \/ ss'.widget # w /\ Menu(w) \notin ss'.dom

C8_TimerFires ==
    \A w \in Widgets :
        (ss.widget = w /\ DismissTimerFire(w))
        => /\ MenusAttached' = {} /\ OverlaysAttached' = {}
           /\ ss'.widget = 0
           /\ ~ss'.widgets[w].abortController
           /\ ~ss'.widgets[w].menuTimeout
           /\ ~ss'.overlayManager.abortController

C8_DismissByTimeout ==
    [][C8_TimerStarted]_vars /\ [][C8_TimerKept]_vars /\ [][C8_TimerFires]_vars

\* a shown menu with its overlay, the press released, the dismiss timer pending
C8_Witness ==
    /\ impl = "current" /\ ~mouseHeld /\ touches = {} /\ hover = 0
    /\ ss.widget # 0
    /\ ss.widgets[ss.widget].phase = "shown"
    /\ ss.widgets[ss.widget].menuTimeout
    /\ ss.dom = { Menu(ss.widget), Overlay(ss.overlayManager.overlayElement) }

\* C9: while a session is open, a mousedown or touchstart on a target outside
\* the menu that is not the anchor checkbox closes the session in that step.
C9_OutsidePressCloses ==
    [][ \A tgt \in PointerTargets(ss, doc) :
          (/\ impl = "current" /\ ss.widget # 0
           /\ ~InMenu(tgt, ss.widget)
           /\ tgt # Cb(ss.widgets[ss.widget].target)
           /\ (MouseDown(tgt) \/ \E p \in Origins : TouchStart(tgt, p)))
          => /\ ss'.widget = 0
             /\ MenusAttached' = {} /\ OverlaysAttached' = {} ]_vars

\* C10: a second call of hide, of destroy or cleanup, of OverlayManager.remove
\* or of the legacy hideMenu right after the first throws nothing and leaves
\* the state, DOM included, as the first call left it.
C10_ClosingIdempotent ==
    /\ \A w \in Widgets :
          /\ hide(hide(ss, w), w) = hide(ss, w)
          /\ ~hide(hide(ss, w), w).threw
          /\ cleanup(cleanup(ss, w), w) = cleanup(ss, w)
          /\ ~cleanup(cleanup(ss, w), w).threw
    /\ OverlayRemove(OverlayRemove(ss)) = OverlayRemove(ss)
    /\ ~OverlayRemove(OverlayRemove(ss)).threw
    /\ hideMenu(hideMenu(lg)) = hideMenu(lg)

\* an open session with menu, overlay and pending dismiss timer, which the
\* first hide tears down
C10_Witness ==
    /\ impl = "current" /\ ss.widget # 0
    /\ ss.widgets[ss.widget].menuElement
    /\ ss.widgets[ss.widget].menuTimeout
    /\ Menu(ss.widget) \in ss.dom
    /\ ss.overlayManager.overlayElement # 0
    /\ hide(ss, ss.widget) # ss

\* C11: in every reachable state, the window between the show effect and the
\* end of rendering included, the overlay is attached exactly when the menu
\* is, and both are attached exactly when the state field holds a widget.
C11_OverlayIffMenuIffWidget ==
    /\ (OverlaysAttached # {}) <=> (MenusAttached # {})
    /\ (ss.widget # 0) <=> (OverlaysAttached # {} /\ MenusAttached # {})

\* C11 as the code keeps it: a menu is attached only while the state field
\* holds its widget, an overlay only while the field holds a widget, and
\* an attached overlay is the one the overlay manager holds; with no widget
\* in the field neither is attached.
C11_AttachedOnlyWhileHeld ==
    /\ \A w \in Widgets : Menu(w) \in ss.dom => ss.widget = w
    /\ OverlaysAttached # {} => ss.widget # 0
    /\ \A e \in OverlaysAttached : e = Overlay(ss.overlayManager.overlayElement)
    /\ ss.widget = 0 => MenusAttached = {} /\ OverlaysAttached = {}

\* the rendering window: the field holds a widget and the overlay is attached
\* while the menu is not
C11_Witness ==
    /\ impl = "current" /\ ss.widget # 0
    /\ ss.widgets[ss.widget].phase = "rendering"
    /\ OverlaysAttached # {}
    /\ MenusAttached = {}

\* C12: when an entry is selected and the text at the stored position no
\* longer matches the checkbox pattern (the document was edited while the
\* menu was open, possibly shortened below the stored position), the
\* selection changes nothing in the document, throws nothing, and the session
\* is closed.
C12_StaleSelectionAborts ==
    [][ \A w \in Widgets : \A i \in 0..(Len(ss.widgets[w].rendered) - 1) :
          (SelectStep(w, i) /\ ~SessionLineMatches(w))
          => /\ ~handleStyleSelection(ss, doc, w, i,
                     getEnabledStyles(cachedEnabledStyles, checkboxStyles)).threw
             /\ changes' = 0
             /\ doc' = doc
             /\ ss'.widget = 0
             /\ MenusAttached' = {} /\ OverlaysAttached' = {} ]_vars

\* the position of checkbox c cannot be resolved (posAtDOM fails or gives a
\* position outside the document) or its line is not a checkbox line
AnchorUnusable(c) ==
    LET pos == posAtDOM(doc, c)
    IN \/ pos < 0
       \/ pos > DocLength(doc)
       \/ ~isCheckboxLine(doc[lineAt(doc, pos)].text)

\* C13: when the long-press timer fires and the anchor position cannot be
\* resolved or the line at it is not a checkbox line, no overlay and no menu
\* are created, an open session is left as it was, the document is not
\* changed and no exception leaves the timer callback.
C13_UnusableAnchorOpensNothing ==
    [][ (LongPressTimerFire /\ AnchorUnusable(timer))
          => /\ ss' = ss
             /\ ~ss'.threw
             /\ doc' = doc /\ changes' = 0
             /\ timer' = 0 ]_vars

\* a long-press timer is about to fire for a checkbox whose line is no
\* longer a checkbox line, while a session is open
C13_Witness ==
    /\ impl = "current" /\ timer # 0 /\ lastTarget = timer
    /\ AnchorUnusable(timer)
    /\ ss.widget # 0 /\ Menu(ss.widget) \in ss.dom

\* C14: once the editor view has been torn down, the session that was open
\* is destroyed: its menu and overlay are detached, its dismiss timer is
\* cancelled and its document-level listeners are removed, so that none of
\* its callbacks can run afterwards; a pending long-press timer is cancelled
\* as well.
C14_TeardownDestroysSession ==
    viewDestroyed
    => /\ timer = 0
       /\ ss.widget = 0
       /\ MenusAttached = {} /\ OverlaysAttached = {}
       /\ \A w \in Widgets :
             /\ ~ss.widgets[w].menuTimeout
             /\ ~ss.widgets[w].restartPending
             /\ ~ss.widgets[w].abortController
             /\ ss.widgets[w].phase # "rendering"

\* both symbols are catalog symbols
CatalogPair ==
    LET catalog == { CHECKBOX_STYLES[i] : i \in 1..Len(CHECKBOX_STYLES) }
    IN compat.currentSymbol \in catalog /\ compat.targetSymbol \in catalog

\* C15: with compatibility enabled, for every pair of catalog symbols:
\* (' ','x') is a click, ('-','x') a text change, ('x',' ') a click,
\* ('!',' ') a text change, ('-',' ') a click; a target other than ' ' and
\* 'x' is always a text change; and equal symbols never give a click.
C15_DecisionTable ==
    LET cur == compat.currentSymbol
        tgt == compat.targetSymbol
    IN (compat.decided /\ compat.tasksCompatibilityEnabled /\ CatalogPair)
       => /\ (cur = " " /\ tgt = "x") => compat.useClick
          /\ (cur = "-" /\ tgt = "x") => ~compat.useClick
          /\ (cur = "x" /\ tgt = " ") => compat.useClick
          /\ (cur = "!" /\ tgt = " ") => ~compat.useClick
          /\ (cur = "-" /\ tgt = " ") => compat.useClick
          /\ tgt \notin {" ", "x"} => ~compat.useClick
          /\ cur = tgt => ~compat.useClick

\* the decision for a cancelled task that is to become complete
C15_Witness ==
    /\ compat.decided /\ compat.tasksCompatibilityEnabled
    /\ compat.currentSymbol = "-" /\ compat.targetSymbol = "x"
    /\ ~compat.useClick

\* two symbols denote the same task state: 'x' and 'X' are both complete
SameState(a, b) == a = b \/ (a \in {"x", "X"} /\ b \in {"x", "X"})

\* C16: whenever shouldUseClickForToggle answers true, for any pair over the
\* catalog symbols and 'X', a native click on the current symbol yields the
\* target state.
C16_ClickReachesTarget ==
    (compat.decided /\ compat.useClick)
    => SameState(nativeClick(compat.currentSymbol), compat.targetSymbol)

\* C17: with compatibility disabled the answer is false for every pair.
C17_DisabledNeverClicks ==
    (compat.decided /\ ~compat.tasksCompatibilityEnabled) => ~compat.useClick

\* the decision, with compatibility disabled, for a pair that is a click when
\* it is enabled
C17_Witness ==
    /\ compat.decided /\ ~compat.tasksCompatibilityEnabled
    /\ compat.currentSymbol = " " /\ compat.targetSymbol = "x"

\* C18: a call of applyStyleViaClick on its normal path removes the overlay,
\* dispatches nothing itself, schedules one timer and returns shouldHideMenu
\* = false; the click is dispatched by that timer, once, when the overlay is
\* already removed; and no other step dispatches a click.
C18_ClickOnceAfterRemoval ==
    [][ /\ ApplyStyleViaClick(FALSE)
           => /\ ~compat'.overlayElement
              /\ compat'.clicks = compat.clicks
              /\ compat'.timers = compat.timers + 1
              /\ compat'.returned /\ ~compat'.shouldHideMenu
        /\ ClickTimerFire(FALSE)
           => /\ ~compat.overlayElement
              /\ compat'.clicks = compat.clicks + 1
              /\ compat'.timers = compat.timers - 1
        /\ compat'.clicks # compat.clicks => ClickTimerFire(FALSE)
        /\ compat.clicks + compat.timers <= compat.calls ]_vars

\* one call was made, its overlay is gone and its one click was dispatched
C18_Witness ==
    /\ compat.calls = 1 /\ compat.clicks = 1 /\ compat.timers = 0
    /\ ~compat.overlayElement
    /\ compat.returned /\ ~compat.shouldHideMenu

\* C19: when dispatching the simulated click throws, the exception is caught
\* inside applyStyleViaClick: nothing escapes, the click is not tried again,
\* and the caller was told shouldHideMenu = true.
C19_DispatchFailureCaught ==
    compat.dispatchFailed
    => /\ ~compat.escaped
       /\ compat.shouldHideMenu

\* the persisted field is a number
IsNumber(value) == data.kind = "object" /\ value.t = "number"

\* C20: on load, a persisted long-press duration outside its range is
\* clamped into the range (desktop: below 100 becomes 100, above 1000 becomes
\* 1000; mobile: below 200 becomes 200, above 1500 becomes 1500), and loading
\* never fails whatever the persisted data is.
C20_OutOfRangeClamped ==
    settings.loaded
    => /\ ~settings.threw
       /\ IsNumber(data.longPressDuration)
          => /\ data.longPressDuration.v < 100 => settings.longPressDuration = 100
             /\ data.longPressDuration.v > 1000 => settings.longPressDuration = 1000
       /\ IsNumber(data.touchLongPressDuration)
          => /\ data.touchLongPressDuration.v < 200 => settings.touchLongPressDuration = 200
             /\ data.touchLongPressDuration.v > 1500 => settings.touchLongPressDuration = 1500

\* C20 as the code behaves: on load, a persisted duration inside its range is
\* kept, one outside its range (or not a number at all) is replaced by the
\* default, 350 on the desktop and 500 on mobile, so the loaded durations are
\* always inside their ranges; and loading never fails, whatever the
\* persisted data is.
C20_OutOfRangeBecomesDefault ==
    settings.loaded
    => /\ ~settings.threw
       /\ settings.longPressDuration \in 100..1000
       /\ settings.touchLongPressDuration \in 200..1500
       /\ IsNumber(data.longPressDuration)
          => settings.longPressDuration =
                 IF data.longPressDuration.v \in 100..1000
                 THEN data.longPressDuration.v ELSE 350
       /\ IsNumber(data.touchLongPressDuration)
          => settings.touchLongPressDuration =
                 IF data.touchLongPressDuration.v \in 200..1500
                 THEN data.touchLongPressDuration.v ELSE 500
       /\ data.kind # "object"
          => settings.longPressDuration = 350 /\ settings.touchLongPressDuration = 500

\* settings loaded from data whose durations are just outside both ranges
C20_Witness ==
    /\ settings.loaded
    /\ data.kind = "object"
    /\ data.longPressDuration = Num(1001)
    /\ data.touchLongPressDuration = Num(199)
    /\ settings.longPressDuration = 350
    /\ settings.touchLongPressDuration = 500

\* C21: after loadSettings and after every saveSettings, whatever the sliders
\* and text fields reported and whatever was persisted, the desktop duration
\* lies in 100..1000 and the mobile duration in 200..1500, in the settings
\* object (from which every long-press timer takes its delay) and in what
\* each saveData call writes.
C21_DurationsInRange ==
    settings.loaded
    => /\ settings.longPressDuration \in 100..1000
       /\ settings.touchLongPressDuration \in 200..1500
       /\ \A k \in 1..Len(settings.saving) :
             /\ settings.saving[k].longPressDuration.v \in 100..1000
             /\ settings.saving[k].touchLongPressDuration.v \in 200..1500

\* settings loaded from durations outside both ranges, then changed by a
\* slider, with the save in progress
C21_Witness ==
    /\ settings.loaded
    /\ data.kind = "object" /\ data.longPressDuration = Num(99)
    /\ settings.longPressDuration = 1000
    /\ Len(settings.saving) = 1

\* C22: after the Reset button is used, whatever toggles preceded it and
\* whether the settings came from persisted data or from none, the enabled
\* styles are exactly the defaults ' ', '/', 'x' and '-'.
C22_ResetRestoresDefaults ==
    [][ ResetStyles => settings'.styles = {" ", "/", "x", "-"} ]_vars

\* C23: the list getEnabledStyles returns is always the catalog filtered by
\* the flags of the settings at that moment, in catalog order, after any
\* sequence of toggles, resets and saves.
C23_EnabledListFollowsFlags ==
    settings.loaded
    => getEnabledStyles(cachedEnabledStyles, checkboxStyles) = FilterEnabled(settings.styles)

\* the open session shows the 'No styles enabled' placeholder
PlaceholderSession ==
    /\ impl = "current" /\ checkboxStyles = {}
    /\ ss.widget # 0
    /\ ss.widgets[ss.widget].rendered = << >>

\* C24: with no style enabled a confirmed long-press opens a session whose
\* menu, with no entries, is attached with its overlay and a running dismiss
\* timer; while that session is open no step but an edit of the text changes
\* the document; the dismiss timeout and a press outside close it, leaving
\* no menu and no overlay.
C24_Opens ==
    (/\ impl = "current" /\ checkboxStyles = {}
     /\ LongPressTimerFire /\ lastTarget = timer /\ LongPressOpens(doc, timer))
    => /\ ss'.widget # 0
       /\ ss'.widgets[ss'.widget].rendered = << >>
       /\ ss'.widgets[ss'.widget].phase = "shown"
       /\ ss'.widgets[ss'.widget].menuTimeout
       /\ MenusAttached' = { Menu(ss'.widget) }
       /\ OverlaysAttached' = { Overlay(ss'.overlayManager.overlayElement) }

C24_NoChange ==
    (PlaceholderSession /\ ~EditDocument) => (doc' = doc /\ changes' = 0)

C24_Closes ==
    (/\ PlaceholderSession
     /\ \/ DismissTimerFire(ss.widget)
        \/ MouseDown(Outside) \/ MouseDown(Other)
        \/ \E p \in Origins : TouchStart(Outside, p) \/ TouchStart(Other, p))
    => /\ ss'.widget = 0
       /\ MenusAttached' = {} /\ OverlaysAttached' = {}

C24_PlaceholderSession ==
    [][C24_Opens]_vars /\ [][C24_NoChange]_vars /\ [][C24_Closes]_vars

\* a placeholder menu is shown with its overlay and its dismiss timer
C24_Witness ==
    /\ PlaceholderSession
    /\ ss.widgets[ss.widget].phase = "shown"
    /\ ss.widgets[ss.widget].menuTimeout
    /\ ss.dom = { Menu(ss.widget), Overlay(ss.overlayManager.overlayElement) }

\* the call of maybeShowTasksNotice with this target shows the notice
NoticeDue(targetSymbol) ==
    /\ ~compat.hasShownTasksNotice
    /\ isTasksPluginInstalled(compat.app)
    /\ ~compat.enableTasksCompatibility
    /\ targetSymbol \in { "x", "X" }

\* C25: over any sequence of maybeShowTasksNotice calls the Tasks notice is
\* shown at most once; a call shows it exactly when the notice was not yet
\* shown, Tasks is installed, the integration is disabled and the target is
\* 'x' or 'X', and that call sets hasShownTasksNotice and requests one save;
\* every other call changes nothing.
C25_Call ==
    \A targetSymbol \in NoticeSymbols :
        MaybeShowTasksNotice(targetSymbol)
        => IF NoticeDue(targetSymbol)
           THEN /\ compat'.notices = compat.notices + 1
                /\ compat'.hasShownTasksNotice
                /\ compat'.saves = compat.saves + 1
                /\ compat'.enableTasksCompatibility = compat.enableTasksCompatibility
           ELSE compat' = [ compat EXCEPT !.runs = @ + 1 ]

C25_NoticeAtMostOnce ==
    /\ [](compat.notices <= 1)
    /\ [](compat.notices = 1 => compat.hasShownTasksNotice)
    /\ [][C25_Call]_vars

\* the notice has been shown and maybeShowTasksNotice can be called again
\* with a completing symbol while Tasks is installed and the integration off
C25_Witness ==
    /\ compat.notices = 1 /\ compat.saves = 1
    /\ compat.runs < MaxCompatRuns
    /\ isTasksPluginInstalled(compat.app)
    /\ ~compat.enableTasksCompatibility

\* C26: after validateAndFixCompatibilitySettings the integration is enabled
\* only if Tasks is installed; wasChanged is true exactly when the call
\* switched the flag from true to false; hasShownTasksNotice is not touched;
\* the watcher calls onSettingsChanged once in the runs where wasChanged is
\* true and not at all in the others, so a run that follows a run with no
\* change of the installed plugins calls it zero times.
ValidateOutcome ==
    /\ compat'.enableTasksCompatibility => isTasksPluginInstalled(compat.app)
    /\ compat'.enableTasksCompatibility => compat.enableTasksCompatibility
    /\ compat'.wasChanged
         <=> (compat.enableTasksCompatibility /\ ~compat'.enableTasksCompatibility)
    /\ compat'.hasShownTasksNotice = compat.hasShownTasksNotice
    /\ compat'.notices = compat.notices

C26_Validate ==
    ValidateAndFixCompatibilitySettings
    => (ValidateOutcome /\ compat'.saves = compat.saves)

C26_Watcher ==
    CompatibilityWatcher
    => /\ ValidateOutcome
       /\ compat'.saves = compat.saves + (IF compat'.wasChanged THEN 1 ELSE 0)
       /\ compatibilityWatcher(compat').saves = compat'.saves

C26_ValidationAndWatcher ==
    [][C26_Validate]_vars /\ [][C26_Watcher]_vars

\* the watcher has switched the integration off after Tasks was removed and
\* has called onSettingsChanged once
C26_Witness ==
    /\ compat.wasChanged /\ compat.saves = 1 /\ compat.notices = 0
    /\ ~compat.enableTasksCompatibility
    /\ ~isTasksPluginInstalled(compat.app)
    /\ compat.runs < MaxCompatRuns

\* C27: while a session is open and its menu is shown, a mousedown or
\* touchstart on the overlay that covers the anchor checkbox does not close
\* the session: the widget stays in the state field, the menu and the overlay
\* stay attached and the dismiss timer is pending afterwards.
C27_OverlayPressKeepsSession ==
    [][ \A n \in Widgets :
          (/\ impl = "current" /\ ss.widget # 0
           /\ ss.widgets[ss.widget].phase = "shown"
           /\ Ov(n) \in PointerTargets(ss, doc)
           /\ (MouseDown(Ov(n)) \/ \E p \in Origins : TouchStart(Ov(n), p)))
          => /\ ss'.widget = ss.widget
             /\ Menu(ss.widget) \in ss'.dom
             /\ Overlay(n) \in ss'.dom
             /\ ss'.widgets[ss.widget].menuTimeout ]_vars

\* C28: during the whole time a session is open no mousedown or touchstart
\* reaches the anchor checkbox of the session, so no long-press timer is
\* started on it while the menu is open.
C28_NoPressReachesAnchor ==
    [][ (/\ impl = "current" /\ ss.widget # 0
         /\ Menu(ss.widget) \in ss.dom)
        => ~(\/ MouseDown(Cb(ss.widgets[ss.widget].target))
             \/ \E p \in Origins : TouchStart(Cb(ss.widgets[ss.widget].target), p)) ]_vars

\* the touch that started on tgt, inside the shown menu of the open session
\* w, ends at p after dur ms or is cancelled, without selecting a style
NonSelectingTouch(w, tgt) ==
    /\ Mobile /\ ss.widget = w
    /\ ss.widgets[w].phase = "shown" /\ Menu(w) \in ss.dom
    /\ InMenu(tgt, w) /\ touches = { tgt }
    /\ \/ TouchCancel(tgt)
       \/ \E p \in Points, dur \in Durations :
             /\ ~(tgt[1] = "li" /\ ss.widgets[w].touchStart # << >>
                  /\ IsTap(ss.widgets[w].touchStart, p, dur))
             /\ TouchEnd(tgt, p, dur)

\* C29: on mobile, after a touch on the open menu that selects no style (on
\* the padding, a scroll gesture or a long hold on an entry, a cancelled
\* touch) the dismiss timer is pending again or its restart is scheduled.
C29_DismissTimerRunsAgain ==
    [][ \A w \in Widgets : \A tgt \in PointerTargets(ss, doc) :
          NonSelectingTouch(w, tgt)
          => (ss'.widgets[w].menuTimeout \/ ss'.widgets[w].restartPending) ]_vars

\* C30: every accepted selection of a menu entry (mouseup on an entry on the
\* desktop, valid tap on an entry on mobile) ends in the same step with the
\* session closed: no widget in the state field, no menu and no overlay
\* attached, no dismiss timer of the widget pending, whatever the document
\* and the enabled styles are at that moment.
C30_SelectionClosesSession ==
    [][ \A w \in Widgets : \A i \in 0..(Len(CHECKBOX_STYLES) - 1) :
          (impl = "current" /\ ss.widget = w /\ Menu(w) \in ss.dom /\ SelectStep(w, i))
          => /\ ss'.widget = 0
             /\ MenusAttached' = {} /\ OverlaysAttached' = {}
             /\ ~ss'.widgets[w].menuTimeout
             /\ ~ss'.widgets[w].restartPending ]_vars

\* the status symbol of the line of document d that holds position pos
SymbolAt(d, pos) ==
    LET text == d[lineAt(d, pos)].text
    IN text[BracketAfterMarker(text) + 1]

\* C31: the symbol a selection writes to the document is the symbol of the
\* picked entry as it was rendered when the menu opened, also when the
\* enabled styles were changed in the settings while the menu was open.
C31_WritesRenderedSymbol ==
    [][ \A w \in Widgets : \A i \in 0..(Len(ss.widgets[w].rendered) - 1) :
          (SelectStep(w, i) /\ changes' = 1)
          => SymbolAt(doc', ss.widgets[w].linePos) = ss.widgets[w].rendered[i + 1] ]_vars

\* C32: a selection changes no line but the line of the checkbox that was
\* long-pressed, also when lines were inserted above it while the menu was
\* open.
C32_OnlyAnchorLineChanges ==
    [][ \A w \in Widgets : \A i \in 0..(Len(ss.widgets[w].rendered) - 1) :
          SelectStep(w, i)
          => /\ Len(doc') = Len(doc)
             /\ \A n \in 1..Len(doc) :
                   doc'[n] # doc[n] => doc[n].id = ss.widgets[w].target ]_vars

\* the finger that went down at origin ts is lifted at p after dur ms, having
\* moved less than 10 px on both axes and lasted less than 300 ms
MovedLittleAndShort(ts, p, dur) ==
    /\ Abs(p[1] - ts[1]) < 10 /\ Abs(p[2] - ts[2]) < 10
    /\ dur < 300

\* C33: on mobile, the touch whose start the shown menu has recorded and
\* that ends on an entry applies the entry's style (on a line that is still
\* the session's checkbox line) and closes the session if the finger moved
\* less than 10 px on both axes and the touch lasted less than 300 ms;
\* otherwise, and for every touch that ends on the menu outside the entries
\* or is cancelled, the document is not changed and the menu stays attached.
C33_EntryTouch ==
    \A w \in Widgets : \A i \in 0..(Len(ss.widgets[w].rendered) - 1) :
      \A p \in Points, dur \in Durations :
        (/\ Mobile /\ ss.widget = w /\ Menu(w) \in ss.dom
         /\ ss.widgets[w].abortController
         /\ ss.widgets[w].touchStart # << >>
         /\ TouchEnd(Li(w, i), p, dur))
        => IF MovedLittleAndShort(ss.widgets[w].touchStart, p, dur)
           THEN SessionLineMatches(w)
                => /\ SymbolAt(doc', ss.widgets[w].linePos) = SelectedSymbol(i)
                   /\ SelectedSymbol(i) # CurrentSymbol(w) => changes' = 1
                   /\ ss'.widget = 0 /\ Menu(w) \notin ss'.dom
           ELSE /\ doc' = doc /\ changes' = 0
                /\ ss'.widget = w /\ Menu(w) \in ss'.dom

C33_OtherTouch ==
    \A w \in Widgets :
        (/\ Mobile /\ ss.widget = w /\ Menu(w) \in ss.dom
         /\ \/ \E p \in Points, dur \in Durations : TouchEnd(Pad(w), p, dur)
            \/ \E tgt \in touches : InMenu(tgt, w) /\ TouchCancel(tgt)
            \/ \E tgt \in touches : \E p \in Points : InMenu(tgt, w) /\ TouchMove(tgt, p))
        => /\ doc' = doc /\ changes' = 0
           /\ ss'.widget = w /\ Menu(w) \in ss'.dom

C34_MultiTouchOpensNothing ==
    [][ \A tgt \in PointerTargets(ss, doc) : \A p \in Origins :
          (Mobile /\ touches # {} /\ TouchStart(tgt, p))
          => timer' = 0 ]_vars

\* C35: a widget destroyed while its menu is being rendered attaches no menu
\* element, starts no dismiss timer and registers no listener when the
\* rendering finishes; in every reachable state an attached menu belongs to
\* the widget held by the state field.
C35_RenderAfterDestroy ==
    \A w \in Widgets :
        (RenderDone(w) /\ ~ss.widgets[w].menuElement)
        => /\ Menu(w) \notin ss'.dom
           /\ ~ss'.widgets[w].menuTimeout
           /\ ~ss'.widgets[w].abortController
           /\ ~ss'.widgets[w].popperInstance
           /\ ss'.widget = ss.widget
           /\ ss'.dom = ss.dom

C35_OnlyCurrentMenuAttached ==
    \A w \in Widgets :
        /\ Menu(w) \in ss.dom => ss.widget = w
        /\ ss.widgets[w].abortController => ss.widget = w

C35_DestroyedWidgetStaysGone ==
    [](impl = "current" => C35_OnlyCurrentMenuAttached) /\ [][C35_RenderAfterDestroy]_vars

\* the rendering of a destroyed widget is still pending while a later
\* session is open
C35_Witness ==
    \E w \in Widgets :
        /\ impl = "current"
        /\ ss.widgets[w].phase = "rendering" /\ ~ss.widgets[w].menuElement
        /\ ss.widget # 0 /\ ss.widget # w

\* C36: in the legacy implementation, an active-leaf-change that occurs
\* while no press is held and no long-press timer is pending leaves no menu
\* and no overlay attached and no dismiss timer pending.
C36_LeafChangeResets ==
    (impl = "legacy" /\ ~mouseHeld /\ lg.pending = 0)
    => LET l == onActiveLeafChange(lg)
       IN /\ l.dom = {}
          /\ l.menuElement = 0 /\ l.overlayElement = 0
          /\ ~l.menuTimeout

\* C37: in the legacy implementation, once the session is closed (no menu
\* element is held) no dismiss timer is pending and no closeOnClickOutside
\* listener is registered on the document.
C37_ClosedSessionLeavesNothing ==
    (impl = "legacy" /\ lg.menuElement = 0)
    => (~lg.menuTimeout /\ lg.listeners = 0)

\* C38: in the legacy implementation a menu that has just been shown has its
\* dismiss timer pending, so that without any pointer event the menu and the
\* overlay are removed after the menu timeout.
C38_ShownMenuHasDismissTimer ==
    [][ (LegacyTimerFire /\ lg'.menuElement # 0) => lg'.menuTimeout ]_vars

\* C39: closing a session removes only elements the session created: an
\* element of the host application or of another plugin that is attached
\* stays attached in every step of the plugin.
C39_ForeignElementsKept ==
    [][ (HostTooltip \in ss.dom) => (HostTooltip \in (ss').dom) ]_vars

\* C40: every resource a session registers is released when the session is
\* closed: while no widget holds a menu element and none is rendering, the
\* plugin holds no render child of a menu.
C40_RenderChildrenReleased ==
    (/\ impl = "current" /\ ss.widget = 0
     /\ \A w \in Widgets : ~ss.widgets[w].menuElement /\ ss.widgets[w].phase # "rendering")
    => ss.children = 0

====
